---- MODULE Spec2Model ----
(***************************************************************************)
(* The session and tool-set store of src/src/sessions.ts, the act turn of  *)
(* src/unnamed/part_006 (tools/act.ts with server-side sessions) and the   *)
(* get-session, delete-session and register-tools tools, as one state      *)
(* machine.  Spec is the server; SpecStore and SpecSweep call the store    *)
(* functions one by one; SpecTools is the server with register-tools and   *)
(* a backend that throws every kind of value.  SpecToolSets is the         *)
(* tool-set cache alone, SpecParse the act turns over the answers the      *)
(* response parser has to tell apart, SpecResume two callers that resume   *)
(* one session at the same time, and SpecCached the new tasks that name a  *)
(* cached tool set, which act does not read.  SpecHung is the server with  *)
(* a backend that may never answer, while the clock moves on.              *)
(* SpecInfo calls getSessionInfo with the clock moving inside the call,    *)
(* SpecLeave is the server beside every store function that removes        *)
(* sessions, and SpecBoth calls the tool-set functions and the session     *)
(* functions one by one on one store.                                      *)
(*                                                                         *)
(* Time is Date.now() in milliseconds.  The clock moves in the action      *)
(* AdvanceClock, and between the two reads of getSessionInfo in SpecInfo;  *)
(* every other synchronous stretch of code reads one value of it.          *)
(* An act call is three steps, cut at its two awaits (getModelInfo and     *)
(* respond); any other operation may run between them.                     *)
(*                                                                         *)
(* A text is a sequence of tokens (strings): its characters are those of   *)
(* the tokens in order.  White space is always a token of its own, so      *)
(* String.trim, String.length and the scanning of JSON.parse and of the    *)
(* fenced-block pattern are computed token by token.                       *)
(***************************************************************************)
EXTENDS Integers, Sequences, FiniteSets, TLC

VARIABLES
  now,          \* Date.now()
  sessions,     \* the Map `sessions`: id -> Session
  detached,     \* Session objects removed from the Map that an act call in flight still holds
  toolSets,     \* the Map `toolSets`: id -> ToolSet
  lastCleanup,  \* the module variable lastCleanup
  nextId,       \* the next value randomUUID() returns
  calls,        \* the act calls in flight: where each stands, and its locals
  last,         \* the step just taken: the call made or resumed, and what it returned
  steps         \* how many steps have been taken

vars == <<now, sessions, detached, toolSets, lastCleanup, nextId, calls, last, steps>>

-----------------------------------------------------------------------------
(* Bounds of the model *)

MaxSteps == 6     \* the steps of a run

(* Program constants *)

\* sessions.ts:62   const SESSION_TTL_MS = 30 * 60 * 1000
SESSION_TTL_MS == 30 * 60 * 1000
\* sessions.ts:65   const CLEANUP_INTERVAL_MS = 5 * 60 * 1000
CLEANUP_INTERVAL_MS == 5 * 60 * 1000

\* randomUUID(): the n-th identifier it returns; no two are equal
randomUUID(n) == "uuid-" \o ToString(n)

NoId == ""                \* an id argument that is absent or the empty string (both falsy)
CallIds == {"c1"}           \* the slots of act calls in flight

-----------------------------------------------------------------------------
(* Generic helpers *)

EmptyMap == [x \in {} |-> x]

Restrict(f, S) == [x \in S |-> f[x]]

Put(f, k, v) == [x \in DOMAIN f \cup {k} |-> IF x = k THEN v ELSE f[x]]

RECURSIVE SumLen(_)
SumLen(text) == IF text = <<>> THEN 0 ELSE Len(Head(text)) + SumLen(Tail(text))

\* String.length of a text
TextLen(text) == SumLen(text)

-----------------------------------------------------------------------------
(* The store: sessions.ts.  A store value st is the record of the module's *)
(* state [sessions, detached, toolSets, lastCleanup]; each function of     *)
(* sessions.ts is an operator from a store value, the clock t and its      *)
(* arguments to the store value it leaves (and its return value).          *)

\* A ChatMessage
Msg(role, content) == [role |-> role, content |-> content]

\* Map.delete on `sessions`: the object leaves the Map; a caller that holds
\* a reference to it still reads it (detached)
MapDeleteSession(st, id) ==
  IF id \in DOMAIN st.sessions
    THEN [st EXCEPT !.sessions = Restrict(st.sessions, DOMAIN st.sessions \ {id}),
                    !.detached = Put(st.detached, id, st.sessions[id])]
    ELSE st

RECURSIVE MapDeleteSessions(_, _)
MapDeleteSessions(st, ids) ==
  IF ids = {} THEN st
  ELSE LET id == CHOOSE x \in ids : TRUE
       IN MapDeleteSessions(MapDeleteSession(st, id), ids \ {id})

\* (a variant that expires a record already at the TTL)
ExpiredAtTTL(rec, t) == t - rec.lastAccessedAt >= SESSION_TTL_MS

Expired(rec, t) == t - rec.lastAccessedAt > SESSION_TTL_MS

\* The two loops of cleanupExpiredSessions, given the expired keys of each Map
Sweep(st, deadS, deadT) ==
  [st |-> [MapDeleteSessions(st, deadS)
             EXCEPT !.toolSets = Restrict(st.toolSets, DOMAIN st.toolSets \ deadT)],
   ret |-> Cardinality(deadS) + Cardinality(deadT)]

\* (a variant that sweeps the sessions and not the tool sets)
cleanupSessionsOnly(st, t) ==
  Sweep(st, {id \in DOMAIN st.sessions : Expired(st.sessions[id], t)}, {})

\* (a variant that sweeps what was not accessed within the interval)
cleanupBeyondInterval(st, t) ==
  Sweep(st, {id \in DOMAIN st.sessions : t - st.sessions[id].lastAccessedAt > CLEANUP_INTERVAL_MS},
            {id \in DOMAIN st.toolSets : t - st.toolSets[id].lastAccessedAt > CLEANUP_INTERVAL_MS})

cleanupExpiredSessions(st, t) ==
  Sweep(st, {id \in DOMAIN st.sessions : Expired(st.sessions[id], t)},
            {id \in DOMAIN st.toolSets : Expired(st.toolSets[id], t)})

\* (a variant that sweeps as soon as the interval has passed)
maybeCleanupAtInterval(st, t) ==
  IF t - st.lastCleanup >= CLEANUP_INTERVAL_MS
    THEN [cleanupExpiredSessions(st, t).st EXCEPT !.lastCleanup = t]
    ELSE st

maybeCleanup(st, t) ==
  IF t - st.lastCleanup > CLEANUP_INTERVAL_MS
    THEN [cleanupExpiredSessions(st, t).st EXCEPT !.lastCleanup = t]
    ELSE st

\* sessions.set(session.id, session)
MapSetSession(st, session) ==
  [st EXCEPT !.sessions = Put(st.sessions, session.id, session)]

\* createSession(modelId, tools, systemPrompt); id is what generateSessionId()
\* returns; a systemPrompt of <<>> is an absent or empty one
createSession(st, t, id, modelId, tools, systemPrompt) ==
  MapSetSession(maybeCleanup(st, t),
                [id |-> id,
                 messages |-> IF systemPrompt # <<>>
                                THEN <<Msg("system", systemPrompt)>> ELSE <<>>,
                 tools |-> tools,
                 modelId |-> modelId,
                 createdAt |-> t,
                 lastAccessedAt |-> t])

\* (a variant that leaves an expired record in the Map)
LookupKeepsExpired(st, t, id) ==
  IF id \notin DOMAIN st.sessions \/ Expired(st.sessions[id], t)
    THEN [st |-> st, ret |-> FALSE]
    ELSE [st |-> [st EXCEPT !.sessions[id].lastAccessedAt = t], ret |-> TRUE]

\* getSession after its maybeCleanup(): lines 111-124
Lookup(st, t, id) ==
  IF id \notin DOMAIN st.sessions
    THEN [st |-> st, ret |-> FALSE]
  ELSE IF Expired(st.sessions[id], t)
    THEN [st |-> MapDeleteSession(st, id), ret |-> FALSE]
  ELSE [st |-> [st EXCEPT !.sessions[id].lastAccessedAt = t], ret |-> TRUE]

\* getSession(id): ret is TRUE when a Session is returned (it is then
\* st.sessions[id]) and FALSE for undefined
getSession(st, t, id) == Lookup(maybeCleanup(st, t), t, id)

\* The SessionInfo of a session: lines 136-144
SessionInfo(session, t) ==
  [sessionId |-> session.id,
   modelId |-> session.modelId,
   messageCount |-> Len(session.messages),
   toolCount |-> Len(session.tools),
   createdAt |-> session.createdAt,
   lastAccessedAt |-> session.lastAccessedAt,
   ttlRemainingMs |-> SESSION_TTL_MS - (t - session.lastAccessedAt)]

\* g is what getSession returned
InfoOf(g, t, id) ==
  IF ~g.ret THEN [st |-> g.st, ret |-> <<>>]
  ELSE [st |-> g.st, ret |-> SessionInfo(g.st.sessions[id], t)]

\* getSessionInfo(id): ret is the SessionInfo, or <<>> for undefined
getSessionInfo(st, t, id) == InfoOf(getSession(st, t, id), t, id)

\* (a variant that takes the time left from the access before the call)
getSessionInfoStale(st, t, later, id) ==
  IF ~getSession(st, t, id).ret THEN [st |-> getSession(st, t, id).st, ret |-> <<>>]
  ELSE [st |-> getSession(st, t, id).st,
        ret |-> [SessionInfo(getSession(st, t, id).st.sessions[id], later) EXCEPT
                   !.ttlRemainingMs = SESSION_TTL_MS - (later - st.sessions[id].lastAccessedAt)]]

\* getSessionInfo(id) when Date.now() has moved on to `later` by line 143
\* (t is what it reads in getSession)
getSessionInfoLater(st, t, later, id) == InfoOf(getSession(st, t, id), later, id)

\* (a variant that puts the message in front of the log)
Unshift(g, t, id, message) ==
  IF ~g.ret THEN [st |-> g.st, ret |-> FALSE]
  ELSE [st |-> [g.st EXCEPT !.sessions[id].messages = <<message>> \o @,
                            !.sessions[id].lastAccessedAt = t],
        ret |-> TRUE]

\* (a variant that writes the message over the last one of the log)
PushOverLast(g, t, id, message) ==
  IF ~g.ret THEN [st |-> g.st, ret |-> FALSE]
  ELSE [st |-> [g.st EXCEPT !.sessions[id].messages =
                               IF @ = <<>> THEN <<message>>
                               ELSE [@ EXCEPT ![Len(@)] = message],
                            !.sessions[id].lastAccessedAt = t],
        ret |-> TRUE]

\* g is what getSession returned: lines 155-161
Push(g, t, id, message) ==
  IF ~g.ret THEN [st |-> g.st, ret |-> FALSE]
  ELSE [st |-> [g.st EXCEPT !.sessions[id].messages = Append(@, message),
                            !.sessions[id].lastAccessedAt = t],
        ret |-> TRUE]

appendMessage(st, t, id, message) == Push(getSession(st, t, id), t, id, message)

\* (a variant that reports a removal whether or not a record was there)
DeleteReportsTrue(st, id) == [st |-> MapDeleteSession(st, id), ret |-> TRUE]

\* (a variant that refuses to remove a record that has expired)
DeleteIfLive(st, t, id) ==
  IF id \in DOMAIN st.sessions /\ ~Expired(st.sessions[id], t)
    THEN [st |-> MapDeleteSession(st, id), ret |-> TRUE]
    ELSE [st |-> st, ret |-> FALSE]

\* deleteSession(id): return sessions.delete(id)
deleteSession(st, id) ==
  [st |-> MapDeleteSession(st, id), ret |-> id \in DOMAIN st.sessions]

\* listSessions(): ret is the set of keys (the order of the array is not modelled)
Keys(st) == [st |-> st, ret |-> DOMAIN st.sessions]
listSessions(st, t) == Keys(maybeCleanup(st, t))

Size(st) == [st |-> st, ret |-> Cardinality(DOMAIN st.sessions)]

\* (a variant that counts the records that have not expired)
getSessionCountOfLive(st, t) ==
  [st |-> maybeCleanup(st, t),
   ret |-> Cardinality({id \in DOMAIN maybeCleanup(st, t).sessions :
                          ~Expired(maybeCleanup(st, t).sessions[id], t)})]

getSessionCount(st, t) == Size(maybeCleanup(st, t))

\* (a variant that empties the Map of tool sets as well)
clearAllStores(st) == [MapDeleteSessions(st, DOMAIN st.sessions) EXCEPT !.toolSets = EmptyMap]

clearAllSessions(st) == MapDeleteSessions(st, DOMAIN st.sessions)

getSessionTTL == SESSION_TTL_MS

\* toolSets.set(toolSetId, toolSet); return toolSet
MapSetToolSet(st, toolSet) ==
  [st |-> [st EXCEPT !.toolSets = Put(st.toolSets, toolSet.id, toolSet)], ret |-> toolSet]

\* (a variant that keeps the record of an id it already has and adds the
\* new tools to it)
registerToolSetMerging(st, t, tools, id, fresh) ==
  IF id \in DOMAIN st.toolSets
    THEN MapSetToolSet(st, [st.toolSets[id] EXCEPT !.tools = @ \o tools])
    ELSE MapSetToolSet(st, [id |-> IF id # NoId THEN id ELSE fresh, tools |-> tools,
                            createdAt |-> t, lastAccessedAt |-> t])

\* registerToolSet(tools, id): fresh is what randomUUID() would return
registerToolSet(st, t, tools, id, fresh) ==
  MapSetToolSet(st, [id |-> IF id # NoId THEN id ELSE fresh, tools |-> tools,
                     createdAt |-> t, lastAccessedAt |-> t])

\* What stands for the tool set where getToolSet returns undefined
NoToolSet == [id |-> NoId, tools |-> <<>>, createdAt |-> 0, lastAccessedAt |-> 0]

\* (a variant that returns a live tool set without touching it)
getToolSetUntouched(st, t, id) ==
  IF id \notin DOMAIN st.toolSets
    THEN [st |-> st, ret |-> FALSE, toolSet |-> NoToolSet]
  ELSE IF Expired(st.toolSets[id], t)
    THEN [st |-> [st EXCEPT !.toolSets = Restrict(st.toolSets, DOMAIN st.toolSets \ {id})],
          ret |-> FALSE, toolSet |-> NoToolSet]
  ELSE [st |-> st, ret |-> TRUE, toolSet |-> st.toolSets[id]]

\* getToolSet(id): ret is whether a tool set is returned, toolSet the
\* object returned (the one in the Map, after its lastAccessedAt was set)
getToolSet(st, t, id) ==
  IF id \notin DOMAIN st.toolSets
    THEN [st |-> st, ret |-> FALSE, toolSet |-> NoToolSet]
  ELSE IF Expired(st.toolSets[id], t)
    THEN [st |-> [st EXCEPT !.toolSets = Restrict(st.toolSets, DOMAIN st.toolSets \ {id})],
          ret |-> FALSE, toolSet |-> NoToolSet]
  ELSE [st |-> [st EXCEPT !.toolSets[id].lastAccessedAt = t], ret |-> TRUE,
        toolSet |-> [st.toolSets[id] EXCEPT !.lastAccessedAt = t]]

deleteToolSet(st, id) ==
  [st |-> [st EXCEPT !.toolSets = Restrict(st.toolSets, DOMAIN st.toolSets \ {id})],
   ret |-> id \in DOMAIN st.toolSets]

listToolSets(st) == DOMAIN st.toolSets

getToolSetCount(st) == Cardinality(DOMAIN st.toolSets)

clearAllToolSets(st) == [st EXCEPT !.toolSets = EmptyMap]

-----------------------------------------------------------------------------
(* Texts: String.trim, JSON.parse and the fenced-block pattern *)

WhiteSpace == {" ", "\n", "\t"}

RECURSIVE TrimStart(_)
TrimStart(text) ==
  IF text # <<>> /\ Head(text) \in WhiteSpace THEN TrimStart(Tail(text)) ELSE text

RECURSIVE TrimEnd(_)
TrimEnd(text) ==
  IF text # <<>> /\ text[Len(text)] \in WhiteSpace
    THEN TrimEnd(SubSeq(text, 1, Len(text) - 1)) ELSE text

\* String.prototype.trim
Trim(text) == TrimEnd(TrimStart(text))

\* The string literals of the JSON texts in play: <<the token, the string it denotes>>
StringValues == {"tool_calls", "name", "arguments", "get_weather", "city", "London",
                 "other_key", "v"}
StringLiterals == {<<"\"" \o v \o "\"", v>> : v \in StringValues}
IsStringLiteral(tok) == \E p \in StringLiterals : p[1] = tok
Unquote(tok) == (CHOOSE p \in StringLiterals : p[1] = tok)[2]
NumberLiterals == {"1", "22"}

\* A JSON value: t is its type, s the string or the number's digits, keys
\* and kids the member names and values of an object, kids the elements
\* of an array.  Undefined is the JavaScript undefined.
JVal(t, s, keys, kids) == [t |-> t, s |-> s, keys |-> keys, kids |-> kids]
Undefined == JVal("undefined", "", <<>>, <<>>)
SyntaxError == [ok |-> FALSE, val |-> Undefined, pos |-> 0]
Parsed(val, pos) == [ok |-> TRUE, val |-> val, pos |-> pos]

\* the first position from i on that holds no white space
RECURSIVE SkipWs(_, _)
SkipWs(toks, i) ==
  IF i <= Len(toks) /\ toks[i] \in WhiteSpace THEN SkipWs(toks, i + 1) ELSE i

\* JSON.parse, as a pushdown parser.  i is the position in toks; stack holds
\* the objects and arrays that are open, innermost first, each with the
\* members or elements read so far (and key, the member name just read);
\* mode is what is expected next: "value", "key" (a member name and its
\* colon), or "reduce" (val, a complete value, has just been read: it goes
\* into the innermost open object or array, or is the result)
Frame(t, keys, kids, key) == [t |-> t, keys |-> keys, kids |-> kids, key |-> key]

RECURSIVE ParseFrom(_, _, _, _, _)
ParseFrom(toks, i0, stack, mode, val) ==
  LET i == SkipWs(toks, i0)
      tok == toks[i]
      j == SkipWs(toks, i + 1)
      top == Head(stack)
      more == Frame(top.t,
                    IF top.t = "object" THEN Append(top.keys, top.key) ELSE <<>>,
                    Append(top.kids, val), "")
  IN IF mode = "reduce" /\ stack = <<>> THEN Parsed(val, i0)
     ELSE IF i > Len(toks) THEN SyntaxError
     ELSE IF mode = "value" THEN
       CASE tok = "{" ->
              IF j <= Len(toks) /\ toks[j] = "}"
                THEN ParseFrom(toks, j + 1, stack, "reduce", JVal("object", "", <<>>, <<>>))
                ELSE ParseFrom(toks, i + 1, <<Frame("object", <<>>, <<>>, "")>> \o stack,
                               "key", Undefined)
         [] tok = "[" ->
              IF j <= Len(toks) /\ toks[j] = "]"
                THEN ParseFrom(toks, j + 1, stack, "reduce", JVal("array", "", <<>>, <<>>))
                ELSE ParseFrom(toks, i + 1, <<Frame("array", <<>>, <<>>, "")>> \o stack,
                               "value", Undefined)
         [] IsStringLiteral(tok) ->
              ParseFrom(toks, i + 1, stack, "reduce", JVal("string", Unquote(tok), <<>>, <<>>))
         [] tok \in NumberLiterals ->
              ParseFrom(toks, i + 1, stack, "reduce", JVal("number", tok, <<>>, <<>>))
         [] tok \in {"true", "false"} ->
              ParseFrom(toks, i + 1, stack, "reduce", JVal("boolean", tok, <<>>, <<>>))
         [] tok = "null" ->
              ParseFrom(toks, i + 1, stack, "reduce", JVal("null", "", <<>>, <<>>))
         [] OTHER -> SyntaxError
     ELSE IF mode = "key" THEN
       IF IsStringLiteral(tok) /\ j <= Len(toks) /\ toks[j] = ":"
         THEN ParseFrom(toks, j + 1, <<[top EXCEPT !.key = Unquote(tok)]>> \o Tail(stack),
                        "value", Undefined)
         ELSE SyntaxError
     ELSE \* mode = "reduce", inside an object or array
       IF tok = ","
         THEN ParseFrom(toks, i + 1, <<more>> \o Tail(stack),
                        IF top.t = "object" THEN "key" ELSE "value", Undefined)
       ELSE IF (top.t = "object" /\ tok = "}") \/ (top.t = "array" /\ tok = "]")
         THEN ParseFrom(toks, i + 1, Tail(stack), "reduce",
                        JVal(top.t, "", more.keys, more.kids))
       ELSE SyntaxError

ParseValue(toks, i0) == ParseFrom(toks, i0, <<>>, "value", Undefined)

\* JSON.parse(text): the whole text is one value; ok is FALSE when it throws
JSONParse(text) ==
  LET r == ParseValue(text, 1)
  IN IF r.ok /\ SkipWs(text, r.pos) > Len(text) THEN r ELSE SyntaxError

\* value.key for a value that is not null or undefined: the last member of
\* that name of an object, undefined for anything else
GetProp(val, key) ==
  LET hits == {k \in 1..Len(val.keys) : val.keys[k] = key}
  IN IF val.t = "object" /\ hits # {}
       THEN val.kids[CHOOSE k \in hits : \A h \in hits : h <= k]
       ELSE Undefined

-----------------------------------------------------------------------------
(* The response parser: parseToolCalls of part_006 *)

\* (a variant that returns the calls last to first)
RECURSIVE MapToolCallsBackwards(_)
MapToolCallsBackwards(elems) ==
  IF elems = <<>> THEN [threw |-> FALSE, calls |-> <<>>]
  ELSE LET tc == Head(elems)
           rest == MapToolCallsBackwards(Tail(elems))
       IN IF tc.t = "null" \/ rest.threw
            THEN [threw |-> TRUE, calls |-> <<>>]
            ELSE [threw |-> FALSE,
                  calls |-> rest.calls \o <<[name |-> GetProp(tc, "name"),
                                             arguments |-> GetProp(tc, "arguments")]>>]

\* tc => ({name: tc.name, arguments: tc.arguments}); reading a property of
\* null throws a TypeError
RECURSIVE MapToolCalls(_)
MapToolCalls(elems) ==
  IF elems = <<>> THEN [threw |-> FALSE, calls |-> <<>>]
  ELSE LET tc == Head(elems)
           rest == MapToolCalls(Tail(elems))
       IN IF tc.t = "null" \/ rest.threw
            THEN [threw |-> TRUE, calls |-> <<>>]
            ELSE [threw |-> FALSE,
                  calls |-> <<[name |-> GetProp(tc, "name"),
                               arguments |-> GetProp(tc, "arguments")]>> \o rest.calls]

\* A try block that ends without reaching its return statement
NotReturned == [returned |-> FALSE, calls |-> <<>>]

\* parsed.tool_calls.map(...), and the return of its result
ReturnMapped(mapped) ==
  IF mapped.threw THEN NotReturned ELSE [returned |-> TRUE, calls |-> mapped.calls]

\* (a variant that takes a tool_calls that is no array for one call)
IfToolCallsOfAnyKind(tool_calls) ==
  IF tool_calls.t = "undefined" THEN NotReturned
  ELSE IF tool_calls.t # "array"
    THEN [returned |-> TRUE, calls |-> <<[name |-> Undefined, arguments |-> Undefined]>>]
  ELSE ReturnMapped(MapToolCalls(tool_calls.kids))

\* if (parsed.tool_calls && Array.isArray(parsed.tool_calls)) return ...
IfToolCalls(tool_calls) ==
  IF tool_calls.t # "array" THEN NotReturned
  ELSE ReturnMapped(MapToolCalls(tool_calls.kids))

\* r is what JSON.parse did
AfterParse(r) ==
  IF ~r.ok \/ r.val.t = "null" THEN NotReturned
  ELSE IfToolCalls(GetProp(r.val, "tool_calls"))

\* The body of one try block: JSON.parse, then the test
\* parsed.tool_calls && Array.isArray(parsed.tool_calls), then the map.
\* returned is TRUE when the block reaches its return statement.
TryToolCalls(text) == AfterParse(JSONParse(text))

\* The three backquotes that open and close a fenced block (a string of the
\* module cannot hold a backquote: three apostrophes stand for them)
Fence == "'''"

\* the least element of a set of positions
Min(S) == CHOOSE x \in S : \A y \in S : x <= y

\* a position where (\{[\s\S]*?\}) can end: a brace that white space and a
\* fence follow
ClosesAt(text, e) ==
  /\ text[e] = "}"
  /\ SkipWs(text, e + 1) <= Len(text)
  /\ text[SkipWs(text, e + 1)] = Fence

\* the group, from the brace at open to the first brace that can end it
GroupFrom(text, open, closes) ==
  IF open <= Len(text) /\ text[open] = "{" /\ closes # {}
    THEN [found |-> TRUE, group |-> SubSeq(text, open, Min(closes))]
    ELSE [found |-> FALSE, group |-> <<>>]

GroupAt(text, open) ==
  GroupFrom(text, open, {e \in (open + 1)..Len(text) : ClosesAt(text, e)})

\* The match of the pattern  FENCE(?:json)?\s*(\{[\s\S]*?\})\s*FENCE  that
\* starts with the fence at position i: found, and group 1
FenceMatchAt(text, i) ==
  IF text[i] # Fence THEN [found |-> FALSE, group |-> <<>>]
  ELSE GroupAt(text, SkipWs(text, IF i + 1 <= Len(text) /\ text[i + 1] = "json"
                                    THEN i + 2 ELSE i + 1))

\* (a variant that looks at the first fence of the text only)
FirstFenceOnly(text, starts) ==
  IF {i \in 1..Len(text) : text[i] = Fence} = {} THEN [found |-> FALSE, group |-> <<>>]
  ELSE FenceMatchAt(text, Min({i \in 1..Len(text) : text[i] = Fence}))

\* the match at the first of the positions where one starts
FirstMatch(text, starts) ==
  IF starts = {} THEN [found |-> FALSE, group |-> <<>>]
  ELSE FenceMatchAt(text, Min(starts))

\* trimmed.match(...): the leftmost match
FenceMatch(text) == FirstMatch(text, {i \in 1..Len(text) : FenceMatchAt(text, i).found})

\* parseToolCalls(text): isNull is TRUE for a null return
Null == [isNull |-> TRUE, calls |-> <<>>]
ReturnCalls(try) == IF try.returned THEN [isNull |-> FALSE, calls |-> try.calls] ELSE Null

\* Lines 117-133: the fenced block
FromBlock(jsonMatch) ==
  IF jsonMatch.found THEN ReturnCalls(TryToolCalls(jsonMatch.group)) ELSE Null

\* Lines 104-133, direct being the first try block
FromText(trimmed, direct) ==
  IF direct.returned THEN ReturnCalls(direct) ELSE FromBlock(FenceMatch(trimmed))

ParseTrimmed(trimmed) == FromText(trimmed, TryToolCalls(trimmed))

parseToolCalls(text) == ParseTrimmed(Trim(text))

-----------------------------------------------------------------------------
(* Prompt building and error classification *)

\* array.join(sep) of a sequence of texts
RECURSIVE Join(_, _)
Join(texts, sep) ==
  IF texts = <<>> THEN <<>>
  ELSE IF Len(texts) = 1 THEN texts[1]
  ELSE texts[1] \o <<sep>> \o Join(Tail(texts), sep)

\* A ToolSchema: a description or parameters of "" is an absent one;
\* parameters stands for JSON.stringify of the parameters object
ToolDescription(t) ==
  <<"- ", t.name>>
    \o (IF t.description # "" THEN <<": ", t.description>> ELSE <<>>)
    \o (IF t.parameters # "" THEN <<"\n", "  Parameters: ", t.parameters>> ELSE <<>>)

buildToolSystemPrompt(tools) ==
  <<"You have access to the following tools:", "\n", "\n">>
    \o Join([i \in 1..Len(tools) |-> ToolDescription(tools[i])], "\n")
    \o <<"\n", "\n",
         "When you need to use a tool, respond ONLY with a JSON object in this exact format (no other text):",
         "\n",
         "{\"tool_calls\": [{\"name\": \"tool_name\", \"arguments\": {\"arg1\": \"value1\"}}]}",
         "\n", "\n",
         "When you have completed the task or don't need tools, respond with your normal answer.",
         "\n",
         "Do not explain that you're going to use a tool - just output the JSON or your final answer.">>

\* (a variant that puts the results on one line)
formatToolResultsOnOneLine(toolResults) ==
  Join([i \in 1..Len(toolResults) |->
          <<"[", toolResults[i].name, "]: ", toolResults[i].result>>], " ")

formatToolResults(toolResults) ==
  Join([i \in 1..Len(toolResults) |->
          <<"[", toolResults[i].name, "]: ", toolResults[i].result>>], "\n")

\* the string that a text spells
RECURSIVE Concat(_)
Concat(text) == IF text = <<>> THEN "" ELSE Head(text) \o Concat(Tail(text))

\* String.prototype.toLowerCase, token by token: <<a token, its lower case>>
\* for the tokens that hold upper-case letters
LowerCases ==
  { <<"ECONNREFUSED", "econnrefused">>, <<"Unknown", "unknown">>, <<"SDK", "sdk">>,
    <<"Model", "model">>, <<"No", "no">>, <<"WebSocket", "websocket">>,
    <<"Failed", "failed">>, <<"Invalid", "invalid">>, <<"Validation", "validation">>,
    <<"Some", "some">> }
ToLower(tok) ==
  IF \E p \in LowerCases : p[1] = tok
    THEN (CHOOSE p \in LowerCases : p[1] = tok)[2] ELSE tok
ToLowerCase(text) == [i \in 1..Len(text) |-> ToLower(text[i])]

\* String.prototype.includes: the tokens of pattern, in a row, in text
Includes(text, pattern) ==
  \E i \in 1..(Len(text) - Len(pattern) + 1) :
    SubSeq(text, i, i + Len(pattern) - 1) = pattern

\* A value that is thrown: an Error object (kind "Error") whose message is
\* the string that text spells, or that string itself (kind "string")
Thrown(kind, text) == [kind |-> kind, text |-> text, message |-> Concat(text)]

\* The values the backend throws
Errors ==
  { Thrown("Error", <<"ECONNREFUSED">>),
    Thrown("Error", <<"Unknown", " ", "SDK", " ", "error">>),
    Thrown("Error", <<"Model", " ", "not", " ", "found">>),
    Thrown("Error", <<"No", " ", "loaded", " ", "model", " ", "with", " ", "identifier">>),
    Thrown("Error", <<"WebSocket", " ", "connect", "ion", " ", "failed">>),
    Thrown("Error", <<"Failed", " ", "to", " ", "connect">>),
    Thrown("Error", <<"Invalid", " ", "parameter">>),
    Thrown("Error", <<"Validation", " ", "failed">>),
    Thrown("Error", <<"Invalid", " ", "connect", "ion">>),
    Thrown("Error", <<"Some", " ", "random", " ", "error">>),
    Thrown("Error", <<>>),
    Thrown("string", <<"string", " ", "error">>),
    Thrown("string", <<"socket", " ", "not", " ", "found">>) }

\* (a variant with the three classes only)
ClassifyCoarse(message) ==
  IF Includes(message, <<"not", " ", "found">>)
       \/ Includes(message, <<"no", " ", "loaded", " ", "model">>)
    THEN "MODEL_NOT_LOADED"
  ELSE IF Includes(message, <<"connect">>) \/ Includes(message, <<"econnrefused">>)
            \/ Includes(message, <<"websocket">>)
    THEN "CONNECTION_FAILED"
  ELSE "UNKNOWN"

\* Lines 66-76 of types.ts, message being the lower-cased text
Classify(message) ==
  IF Includes(message, <<"not", " ", "found">>)
       \/ Includes(message, <<"no", " ", "loaded", " ", "model">>)
    THEN "MODEL_NOT_LOADED"
  ELSE IF Includes(message, <<"connect">>) \/ Includes(message, <<"econnrefused">>)
            \/ Includes(message, <<"websocket">>)
    THEN "CONNECTION_FAILED"
  ELSE IF Includes(message, <<"invalid">>) \/ Includes(message, <<"validation">>)
    THEN "INVALID_INPUT"
  ELSE "UNKNOWN"

\* mapErrorCode(error): error.message of an Error and String(error) of a
\* string are both the text of the value
mapErrorCode(error) == Classify(ToLowerCase(error.text))

\* (a variant that uses the error message as it is given)
errorResultAsGiven(message, code, errorMessage) ==
  [success |-> FALSE, message |-> message,
   error |-> [code |-> code, message |-> errorMessage]]

\* successResult(message, data): data is Undefined when it is not given
successResult(message, data) ==
  IF data = Undefined THEN [success |-> TRUE, message |-> message]
  ELSE [success |-> TRUE, message |-> message, data |-> data]

errorResult(message, code, errorMessage) ==
  [success |-> FALSE, message |-> message,
   error |-> [code |-> code,
              message |-> IF errorMessage # "" THEN errorMessage ELSE message]]

-----------------------------------------------------------------------------
(* The inputs in play *)

ModelId == "m"
Task == <<"hi">>
SystemPrompt == <<"You are a helpful assistant.">>
MoreMessage == Msg("user", <<"more">>)
GetWeather == [name |-> "get_weather", description |-> "", parameters |-> ""]
ToolLists == {<<>>, <<GetWeather>>}
\* the id a caller gives to a tool set of its own (with none, one is drawn)
CustomToolSetId == "ts"
\* a second tool, for the tool lists of two tools
GetTime == [name |-> "get_time", description |-> "Current time", parameters |-> ""]
ToolResultLists == {<<>>, <<[name |-> "get_weather", result |-> "sunny"]>>}

\* What respond can resolve with (result.content)
PlainAnswer == <<" ", "It's sunny", "\n">>
ToolCallAnswer ==
  <<"{", "\"tool_calls\"", ":", " ", "[", "{", "\"name\"", ":", " ", "\"get_weather\"", ",",
    " ", "\"arguments\"", ":", " ", "{", "\"city\"", ":", " ", "\"London\"", "}", "}", "]", "}">>
OtherJsonAnswer == <<"{", "\"other_key\"", ":", " ", "\"v\"", "}">>
NoCallsAnswer == <<"{", "\"tool_calls\"", ":", " ", "[", "]", "}">>
Responses == {PlainAnswer, ToolCallAnswer}
\* texts the parser is also tried on
AllResponses == Responses \cup {OtherJsonAnswer, NoCallsAnswer, <<"hello">>}

\* More of what a model can answer: two calls, a null for a call,
\* tool_calls that is no array, JSON cut short, the JSON null, words in braces
TwoCallsAnswer ==
  <<"{", "\"tool_calls\"", ":", "[", "{", "\"name\"", ":", "\"get_weather\"", "}", ",",
    "{", "\"name\"", ":", "\"v\"", ",", "\"arguments\"", ":", "1", "}", "]", "}">>
NullCallAnswer == <<"{", "\"tool_calls\"", ":", "[", "null", "]", "}">>
NotArrayAnswer == <<"{", "\"tool_calls\"", ":", "\"v\"", "}">>
CutShortAnswer == <<"{", "\"tool_calls\"", ":", "[">>
NullAnswer == <<"null">>
BracedWords == <<"{", "hello", "}">>
Bodies ==
  {ToolCallAnswer, TwoCallsAnswer, OtherJsonAnswer, NoCallsAnswer, NullCallAnswer,
   NotArrayAnswer, CutShortAnswer, NullAnswer, BracedWords, <<"hello">>}

\* A fenced block of markdown around body, with or without the tag json
Fenced(tag, body) == <<Fence>> \o tag \o <<"\n">> \o body \o <<"\n", Fence>>
Tags == {<<>>, <<"json">>}

\* The answers the parser is run on: a body alone, a body in a fenced block
\* with or without words before it, and two fenced blocks
BareTexts == Bodies \cup {<<" ">> \o body \o <<"\n">> : body \in Bodies}
OneBlockTexts ==
  {before \o Fenced(tag, body) :
     before \in {<<>>, <<"Here you go:", "\n">>}, tag \in Tags, body \in Bodies}
TwoBlockTexts ==
  {Fenced(<<>>, first) \o <<"\n">> \o Fenced(<<"json">>, second) :
     first \in Bodies, second \in {ToolCallAnswer, OtherJsonAnswer}}
ParserTexts == BareTexts \cup OneBlockTexts \cup TwoBlockTexts

NoError == [kind |-> "none", text |-> <<>>, message |-> ""]
\* the error the backend throws in the runs explored
ThrownErrors == {Thrown("Error", <<"ECONNREFUSED">>)}
\* by how much the clock moves between two steps
ClockSteps == {CLEANUP_INTERVAL_MS, SESSION_TTL_MS}

\* The inputs of act: a new task (no sessionId) or a resume
NewInput(identifier, task, tools) ==
  [sessionId |-> NoId, identifier |-> identifier, task |-> task, tools |-> tools,
   toolResults |-> <<>>]
ValidNewInputs == {NewInput(ModelId, Task, tools) : tools \in ToolLists}
InvalidNewInputs ==
  {NewInput("", Task, <<>>), NewInput(ModelId, <<>>, <<>>), NewInput("", <<>>, <<>>)}
NewInputs == ValidNewInputs \cup InvalidNewInputs
ResumeInputs(ids) ==
  [sessionId : ids, identifier : {""}, task : {<<>>},
   tools : {<<>>}, toolResults : ToolResultLists]
\* a resume that also names another model, a task and tools of its own
OtherModelId == "other"
OtherTask == <<"new task">>
OverridingInputs(ids) ==
  [sessionId : ids, identifier : {OtherModelId}, task : {OtherTask},
   tools : {<<GetTime>>}, toolResults : {<<>>}]

-----------------------------------------------------------------------------
(* The state *)

Store == [sessions |-> sessions, detached |-> detached, toolSets |-> toolSets,
          lastCleanup |-> lastCleanup]

NoInput == [sessionId |-> NoId, identifier |-> "", task |-> <<>>, tools |-> <<>>,
            toolResults |-> <<>>]
NoResult == [success |-> FALSE, message |-> ""]

\* An act call: pc is where it stands ("idle": the slot holds no call;
\* "getModelInfo" and "respond": the call awaits that backend call; "done":
\* it has returned ret); sid is session.id and isNewSession the local of
\* that name; backend lists the backend calls it has made; handle is the
\* identifier it handed to createDynamicHandle ("" before that) and sent is
\* the message list it handed to respond
IdleCall == [pc |-> "idle", input |-> NoInput, sid |-> NoId, isNewSession |-> FALSE,
             ret |-> NoResult, backend |-> <<>>, handle |-> "", sent |-> <<>>]

InFlight(cs) == {c \in DOMAIN cs : cs[c].pc \in {"getModelInfo", "respond"}}
Held(cs) == {cs[c].sid : c \in InFlight(cs)}

\* The Session object an act call holds in its local `session`
SessionRef(st, sid) ==
  IF sid \in DOMAIN st.sessions THEN st.sessions[sid] ELSE st.detached[sid]

\* The step just taken: op names the operation, id is the session id it was
\* about, ret what it returned (for a store function), slot and call the
\* slot and the record of the act call that took the step (op is "act" when
\* the call returned and "await" when it suspended) and arg the message or
\* content handed in; removed is the set of session ids the step took out
\* of the Map, expired those of them that had expired when it did, and
\* removedToolSets the tool-set ids it took out of the Map `toolSets`;
\* replaced is the set of tool-set records a registerToolSet overwrote;
\* count is the number and keys the array a store function returned, and
\* thrown what a backend call threw in the step (NoError: nothing)
NoSlot == ""
Did(op, id, ret) ==
  [op |-> op, slot |-> NoSlot, call |-> IdleCall, id |-> id, ret |-> ret, arg |-> <<>>,
   removed |-> {}, expired |-> {}, removedToolSets |-> {}, replaced |-> {},
   count |-> 0, keys |-> {}, thrown |-> NoError]
DidAct(c, call, arg) ==
  [op |-> IF call.pc = "done" THEN "act" ELSE "await", slot |-> c, call |-> call,
   id |-> call.sid, ret |-> call.pc = "done", arg |-> arg, removed |-> {},
   expired |-> {}, removedToolSets |-> {}, replaced |-> {}, count |-> 0,
   keys |-> {}, thrown |-> NoError]
Removing(did, st) ==
  [did EXCEPT !.removed = DOMAIN sessions \ DOMAIN st.sessions,
              !.expired = {j \in DOMAIN sessions \ DOMAIN st.sessions :
                             Expired(sessions[j], now)},
              !.removedToolSets = DOMAIN toolSets \ DOMAIN st.toolSets]

\* The step leaves store st and in-flight calls cs; a call that returned
\* frees its slot, and objects no call holds are dropped
Leaves(st, cs) ==
  /\ sessions' = st.sessions
  /\ toolSets' = st.toolSets
  /\ lastCleanup' = st.lastCleanup
  /\ calls' = [c \in DOMAIN cs |-> IF cs[c].pc = "done" THEN IdleCall ELSE cs[c]]
  /\ detached' = Restrict(st.detached, DOMAIN st.detached \cap Held(cs))

\* The same, for a step that counts among the steps of the run
Commit(st, cs) ==
  /\ Leaves(st, cs)
  /\ steps < MaxSteps
  /\ steps' = steps + 1

Init ==
  /\ now = 0
  /\ sessions = EmptyMap
  /\ detached = EmptyMap
  /\ toolSets = EmptyMap
  /\ lastCleanup = 0
  /\ nextId = 1
  /\ calls = [c \in CallIds |-> IdleCall]
  /\ last = Did("init", NoId, FALSE)
  /\ steps = 0

\* Time passes
AdvanceClock(d) ==
  /\ now' = now + d
  /\ Commit(Store, calls)
  /\ last' = Did("advanceClock", NoId, FALSE)
  /\ UNCHANGED nextId

-----------------------------------------------------------------------------
(* act of part_006, cut at its awaits.  Each part is an operator from the  *)
(* store and the call's locals to the store and the call it leaves.        *)

Returned(call, result) == [call EXCEPT !.pc = "done", !.ret = result]

\* (a variant that forgets the clean-up of a new session)
KeepSession(st, call) == st

\* (a variant that cleans up whether or not the call created the session)
DeleteAlways(st, call) == deleteSession(st, call.sid).st

\* if (isNewSession) deleteSession(session.id): lines 201-203 and 247-249
DeleteIfNew(st, call) ==
  IF call.isNewSession THEN deleteSession(st, call.sid).st ELSE st

\* (a variant without the catch block: the promise of act rejects)
Rethrow(st, call, error) == [st |-> st, call |-> Returned(call, [rejected |-> error])]

\* (a variant that takes the tool results of a resumed call back out of
\* the log)
CatchRollingBack(st, call, error) ==
  [st |-> IF call.isNewSession THEN deleteSession(st, call.sid).st
          ELSE IF call.sid \in DOMAIN st.sessions /\ call.input.toolResults # <<>>
            THEN [st EXCEPT !.sessions[call.sid].messages = SubSeq(@, 1, Len(@) - 1)]
          ELSE st,
   call |-> Returned(call, errorResult("Failed to run task", mapErrorCode(error),
                                       IF error.kind = "Error" THEN error.message
                                                               ELSE "Unknown error"))]

\* The catch block: lines 245-254
Catch(st, call, error) ==
  [st |-> DeleteIfNew(st, call),
   call |-> Returned(call, errorResult("Failed to run task", mapErrorCode(error),
                                       IF error.kind = "Error" THEN error.message
                                                               ELSE "Unknown error"))]

\* (a variant that asks for the model that the input names)
ActTryModelOfInput(st, call, thrown) ==
  IF thrown # NoError THEN Catch(st, call, thrown)
  ELSE [st |-> st,
        call |-> [call EXCEPT !.pc = "getModelInfo", !.backend = <<"getModelInfo">>,
                              !.handle = call.input.identifier]]

\* Lines 192-197: getClient, createDynamicHandle({identifier:
\* session.modelId}) and the call of getModelInfo; thrown is the error one
\* of them throws, or NoError
ActTry(st, call, thrown) ==
  IF thrown # NoError THEN Catch(st, call, thrown)
  ELSE [st |-> st,
        call |-> [call EXCEPT !.pc = "getModelInfo", !.backend = <<"getModelInfo">>,
                              !.handle = SessionRef(st, call.sid).modelId]]

\* (a variant that drops the tool results)
SkipToolResults(st, t, input) == st

\* Lines 158-164: the tool results become a user message
AddToolResults(st, t, input) ==
  IF Len(input.toolResults) > 0
    THEN appendMessage(st, t, input.sessionId,
                       Msg("user", formatToolResults(input.toolResults))).st
    ELSE st

\* (a variant that does not look at what getSession returned)
ResumedUnchecked(g, t, call, thrown) ==
  IF ~g.ret
    THEN [st |-> g.st,
          call |-> [call EXCEPT !.sid = call.input.sessionId, !.pc = "getModelInfo",
                                !.backend = <<"getModelInfo">>]]
    ELSE ActTry(AddToolResults(g.st, t, call.input),
                [call EXCEPT !.sid = call.input.sessionId], thrown)

\* Lines 150-164, g being what getSession returned
Resumed(g, t, call, thrown) ==
  IF ~g.ret
    THEN [st |-> g.st,
          call |-> Returned(call,
                     errorResult("Session not found or expired", "INVALID_INPUT",
                                 "Session '" \o call.input.sessionId
                                   \o "' does not exist or has expired"))]
    ELSE ActTry(AddToolResults(g.st, t, call.input),
                [call EXCEPT !.sid = call.input.sessionId], thrown)

\* (a variant that refuses a session that a call in flight holds)
ActResumeOneAtATime(st, t, call, thrown) ==
  IF call.input.sessionId \in Held(calls)
    THEN [st |-> st,
          call |-> Returned(call, errorResult("Session is busy", "INVALID_INPUT", ""))]
    ELSE Resumed(getSession(st, t, call.input.sessionId), t, call, thrown)

\* Lines 147-164: resume an existing session
ActResume(st, t, call, thrown) ==
  Resumed(getSession(st, t, call.input.sessionId), t, call, thrown)

\* (a variant that builds the prompt for an empty tool list too)
AlwaysToolPrompt(tools) == buildToolSystemPrompt(tools)

\* Line 183
ToolPrompt(tools) == IF Len(tools) > 0 THEN buildToolSystemPrompt(tools) ELSE <<>>

\* (a variant without the two checks of the input)
ActNewUnchecked(st, t, fresh, call, thrown) ==
  ActTry(appendMessage(createSession(st, t, fresh, call.input.identifier,
                                     call.input.tools, ToolPrompt(call.input.tools)),
                       t, fresh, Msg("user", call.input.task)).st,
         [call EXCEPT !.sid = fresh, !.isNewSession = TRUE], thrown)

\* Lines 165-190: create a new session; fresh is the id createSession draws
ActNew(st, t, fresh, call, thrown) ==
  IF call.input.identifier = ""
    THEN [st |-> st,
          call |-> Returned(call,
                     errorResult("Model identifier required for new session",
                                 "INVALID_INPUT",
                                 "Provide 'identifier' when starting a new session"))]
  ELSE IF call.input.task = <<>>
    THEN [st |-> st,
          call |-> Returned(call,
                     errorResult("Task required for new session", "INVALID_INPUT",
                                 "Provide 'task' when starting a new session"))]
  ELSE ActTry(appendMessage(createSession(st, t, fresh, call.input.identifier,
                                          call.input.tools, ToolPrompt(call.input.tools)),
                            t, fresh, Msg("user", call.input.task)).st,
              [call EXCEPT !.sid = fresh, !.isNewSession = TRUE], thrown)

\* act up to its first await
ActStart(st, t, fresh, input, thrown) ==
  IF input.sessionId # NoId
    THEN ActResume(st, t, [IdleCall EXCEPT !.input = input], thrown)
    ELSE ActNew(st, t, fresh, [IdleCall EXCEPT !.input = input], thrown)

\* Lines 199-214, session being the object the call holds
InfoSettled(st, call, session, modelInfo) ==
  IF ~modelInfo
    THEN [st |-> DeleteIfNew(st, call),
          call |-> Returned(call,
                     errorResult("Model '" \o session.modelId
                                   \o "' not found or not loaded",
                                 "MODEL_NOT_LOADED", "Model not loaded"))]
    ELSE [st |-> st,
          call |-> [call EXCEPT !.pc = "respond",
                                !.backend = Append(@, "respond"),
                                !.sent = session.messages]]

\* Lines 197-214: getModelInfo has settled (modelInfo is TRUE for a model
\* description, FALSE for undefined; thrown is its rejection, or NoError),
\* and respond is called
ActOnModelInfo(st, call, modelInfo, thrown) ==
  IF thrown # NoError THEN Catch(st, call, thrown)
  ELSE InfoSettled(st, call, SessionRef(st, call.sid), modelInfo)

\* Lines 224-244
TurnResult(session, toolCalls, stats) ==
  IF ~toolCalls.isNull /\ Len(toolCalls.calls) > 0
    THEN successResult("Model requested tool calls",
                       [sessionId |-> session.id, done |-> FALSE,
                        toolCalls |-> toolCalls.calls, stats |-> stats])
    ELSE successResult("Task completed",
                       [sessionId |-> session.id, done |-> TRUE, stats |-> stats])

\* Lines 222-244, st being the store after the append of line 219
Turn(st, call, session, responseText) ==
  [st |-> st,
   call |-> Returned(call,
              TurnResult(session, parseToolCalls(responseText),
                         [messageCount |-> Len(session.messages),
                          responseLength |-> TextLen(responseText)]))]

\* (a variant that deletes the session once it has answered)
AnsweredAndDropped(st, call, responseText) ==
  Turn(deleteSession(st, call.sid).st, call, SessionRef(st, call.sid), responseText)

\* Lines 219-244; the value appendMessage returns is dropped
Answered(st, call, responseText) == Turn(st, call, SessionRef(st, call.sid), responseText)

\* Lines 212-244: respond has settled (content is result.content; thrown
\* is its rejection, or NoError)
ActOnRespond(st, t, call, content, thrown) ==
  IF thrown # NoError THEN Catch(st, call, thrown)
  ELSE Answered(appendMessage(st, t, call.sid, Msg("assistant", Trim(content))).st,
                call, Trim(content))

\* A world says what the backend does during one act call: the error
\* getClient or createDynamicHandle throws (clientThrows), what getModelInfo
\* settles with (modelInfo, or the rejection infoThrows) and what respond
\* settles with (content, or the rejection respondThrows)

\* act from its second await on
ActAfterInfo(r, t, world) ==
  IF r.call.pc # "respond" THEN r
  ELSE ActOnRespond(r.st, t, r.call,
                    IF world.respondThrows = NoError THEN world.content ELSE <<>>,
                    world.respondThrows)

\* act from its first await on
ActAfterStart(r, t, world) ==
  IF r.call.pc # "getModelInfo" THEN r
  ELSE ActAfterInfo(ActOnModelInfo(r.st, r.call, world.modelInfo, world.infoThrows),
                    t, world)

\* Lines 143-255: a whole act call, when nothing else runs during its awaits
act(st, t, fresh, input, world) ==
  ActAfterStart(ActStart(st, t, fresh, input, world.clientThrows), t, world)

-----------------------------------------------------------------------------
(* The get-session and delete-session tools *)

\* (a variant that takes the last message of the log, whatever its role)
LastMessage(messages) ==
  IF messages = <<>> THEN [found |-> FALSE, content |-> <<>>]
  ELSE [found |-> TRUE, content |-> messages[Len(messages)].content]

\* [...session.messages].reverse().find(m => m.role === "assistant")?.content;
\* <<>> is undefined
RECURSIVE LastAssistant(_)
LastAssistant(messages) ==
  IF messages = <<>> THEN [found |-> FALSE, content |-> <<>>]
  ELSE IF messages[Len(messages)].role = "assistant"
    THEN [found |-> TRUE, content |-> messages[Len(messages)].content]
  ELSE LastAssistant(SubSeq(messages, 1, Len(messages) - 1))

NotFoundResult(what, id, tail) ==
  errorResult(what, "INVALID_INPUT", "Session '" \o id \o tail)

\* Lines 43-53 of get-session.ts
SessionData(session, lastAssistantMessage, input) ==
  [sessionId |-> session.id,
   modelId |-> session.modelId,
   messageCount |-> Len(session.messages),
   hasLastResponse |-> lastAssistantMessage.found,
   lastResponse |-> lastAssistantMessage.content,
   hasMessages |-> input.includeMessages,
   messages |-> IF input.includeMessages THEN session.messages ELSE <<>>]

\* (a variant that ignores deleteAfterRead)
RetrievedAndKept(g, session, input) ==
  [st |-> g.st,
   ret |-> successResult("Session retrieved",
                         SessionData(session, LastAssistant(session.messages), input))]

\* Lines 31-59 of get-session.ts, g being what getSession returned
Retrieved(g, session, input) ==
  [st |-> IF input.deleteAfterRead THEN deleteSession(g.st, session.id).st ELSE g.st,
   ret |-> successResult("Session retrieved",
                         SessionData(session, LastAssistant(session.messages), input))]

SessionGot(g, input) ==
  IF ~g.ret
    THEN [st |-> g.st,
          ret |-> NotFoundResult("Session not found or expired", input.sessionId,
                                 "' does not exist or has expired")]
    ELSE Retrieved(g, g.st.sessions[input.sessionId], input)

getSessionTool(st, t, input) == SessionGot(getSession(st, t, input.sessionId), input)

Deleted(deleted, input) ==
  IF ~deleted.ret
    THEN [st |-> deleted.st,
          ret |-> NotFoundResult("Session not found or already deleted", input.sessionId,
                                 "' does not exist or has already been deleted")]
    ELSE [st |-> deleted.st,
          ret |-> successResult("Session deleted",
                                [sessionId |-> input.sessionId, deleted |-> TRUE])]

deleteSessionTool(st, input) == Deleted(deleteSession(st, input.sessionId), input)

\* tools.map((t) => t.name)
ToolNames(tools) == [i \in 1..Len(tools) |-> tools[i].name]

\* Lines 37-41 of register-tools.ts, r being what registerToolSet returned
RegisteredTools(r, tools) ==
  [st |-> r.st,
   ret |-> successResult("Tool set registered",
                         [toolSetId |-> r.ret.id, toolCount |-> Len(tools),
                          toolNames |-> ToolNames(tools)])]

\* registerTools(input); fresh is what randomUUID() would return
registerTools(st, t, input, fresh) ==
  RegisteredTools(registerToolSet(st, t, input.tools, input.toolSetId, fresh), input.tools)

-----------------------------------------------------------------------------
(* Steps of act calls and tool calls: the server *)

\* The ids a caller can name: those drawn so far, and one never drawn
KnownIds == {randomUUID(n) : n \in 1..nextId}

\* The step of an act call leaves r, after the backend threw thrown
ActThrowStep(c, r, arg, thrown) ==
  /\ Commit(r.st, [calls EXCEPT ![c] = r.call])
  /\ last' = Removing([DidAct(c, r.call, arg) EXCEPT !.thrown = thrown], r.st)

\* thrown is what getClient or createDynamicHandle throws when the call
\* gets to them, which it does once it has its session
ActStep(c, r, arg, thrown) ==
  ActThrowStep(c, r, arg, IF r.call.sid # NoId THEN thrown ELSE NoError)

\* An act call is made and runs to its first await or to its return
ActBegin(c, input, thrown) ==
  /\ calls[c].pc = "idle"
  /\ ActStep(c, ActStart(Store, now, randomUUID(nextId), input, thrown), <<>>, thrown)
  /\ nextId' = IF last'.call.isNewSession THEN nextId + 1 ELSE nextId
  /\ UNCHANGED now

\* getModelInfo settles
ActModelInfo(c, modelInfo, thrown) ==
  /\ calls[c].pc = "getModelInfo"
  /\ ActStep(c, ActOnModelInfo(Store, calls[c], modelInfo, thrown), <<>>, thrown)
  /\ UNCHANGED <<now, nextId>>

\* respond settles
ActRespond(c, content, thrown) ==
  /\ calls[c].pc = "respond"
  /\ ActStep(c, ActOnRespond(Store, now, calls[c], content, thrown), content, thrown)
  /\ UNCHANGED <<now, nextId>>

ToolStep(op, input, r) ==
  /\ Commit(r.st, calls)
  /\ last' = Removing(Did(op, input.sessionId, r.ret.success), r.st)
  /\ UNCHANGED <<now, nextId>>

\* The inputs of get-session about the ids of ids
GetSessionInputs(ids) ==
  [sessionId : ids, includeMessages : BOOLEAN, deleteAfterRead : BOOLEAN]

GetSessionTool(input) == ToolStep("getSessionTool", input, getSessionTool(Store, now, input))

DeleteSessionTool(input) == ToolStep("deleteSessionTool", input, deleteSessionTool(Store, input))

Next ==
  \/ \E d \in ClockSteps : AdvanceClock(d)
  \/ \E c \in CallIds,
          input \in NewInputs \cup ResumeInputs(KnownIds) \cup OverridingInputs(KnownIds) :
       ActBegin(c, input, NoError)
  \/ \E c \in CallIds, input \in ValidNewInputs \cup ResumeInputs(KnownIds), e \in ThrownErrors :
       ActBegin(c, input, e)
  \/ \E c \in CallIds, modelInfo \in BOOLEAN : ActModelInfo(c, modelInfo, NoError)
  \/ \E c \in CallIds, e \in ThrownErrors : ActModelInfo(c, TRUE, e)
  \/ \E c \in CallIds, content \in Responses : ActRespond(c, content, NoError)
  \/ \E c \in CallIds, e \in ThrownErrors : ActRespond(c, <<>>, e)
  \/ \E input \in GetSessionInputs(KnownIds) : GetSessionTool(input)
  \/ \E id \in KnownIds : DeleteSessionTool([sessionId |-> id])

Spec == Init /\ [][Next]_vars

-----------------------------------------------------------------------------
(* The server with its register-tools tool, and a backend that throws any  *)
(* of the values of Errors                                                 *)

\* r is what registerTools left and returned
ToolsRegistered(r) ==
  /\ Commit(r.st, calls)
  /\ last' = Removing(Did("registerTools", r.ret.data.toolSetId, r.ret.success), r.st)
  /\ UNCHANGED now

RegisterTools(input) ==
  /\ ToolsRegistered(registerTools(Store, now, input, randomUUID(nextId)))
  /\ nextId' = IF input.toolSetId # NoId THEN nextId ELSE nextId + 1

RegisterInputs == [tools : {<<GetWeather, GetTime>>}, toolSetId : {NoId, CustomToolSetId}]

\* the values the backend throws in these runs: one of each class that
\* mapErrorCode tells apart, an Error without message, and a string
BackendErrors ==
  { Thrown("Error", <<"ECONNREFUSED">>),
    Thrown("Error", <<"Model", " ", "not", " ", "found">>),
    Thrown("Error", <<"Invalid", " ", "parameter">>),
    Thrown("Error", <<>>),
    Thrown("string", <<"string", " ", "error">>) }

NextTools ==
  \/ AdvanceClock(SESSION_TTL_MS + CLEANUP_INTERVAL_MS)
  \/ \E c \in CallIds,
          input \in {NewInput(ModelId, Task, <<>>), NewInput("", Task, <<>>)}
                      \cup ResumeInputs(KnownIds) :
       ActBegin(c, input, NoError)
  \/ \E c \in CallIds, e \in BackendErrors : ActBegin(c, NewInput(ModelId, Task, <<>>), e)
  \/ \E c \in CallIds, modelInfo \in BOOLEAN : ActModelInfo(c, modelInfo, NoError)
  \/ \E c \in CallIds, e \in BackendErrors : ActModelInfo(c, TRUE, e)
  \/ \E c \in CallIds, content \in Responses : ActRespond(c, content, NoError)
  \/ \E c \in CallIds, e \in BackendErrors : ActRespond(c, <<>>, e)
  \/ \E id \in KnownIds :
       GetSessionTool([sessionId |-> id, includeMessages |-> TRUE, deleteAfterRead |-> FALSE])
  \/ \E id \in KnownIds : DeleteSessionTool([sessionId |-> id])
  \/ \E input \in RegisterInputs : RegisterTools(input)

SpecTools == Init /\ [][NextTools]_vars

-----------------------------------------------------------------------------
(* act turns over the answers the parser has to tell apart *)

NextParse ==
  \/ \E c \in CallIds, input \in {NewInput(ModelId, Task, <<GetWeather>>)}
                                    \cup ResumeInputs(DOMAIN sessions) :
       ActBegin(c, input, NoError)
  \/ \E c \in CallIds : ActModelInfo(c, TRUE, NoError)
  \/ \E c \in CallIds, content \in ParserTexts : ActRespond(c, content, NoError)

SpecParse == Init /\ [][NextParse]_vars

-----------------------------------------------------------------------------
(* The server with a backend that may never answer: part_006 awaits        *)
(* respond with no timer (line 212), so a call goes on when respond        *)
(* settles and not before.  Time passes whatever the backend does          *)

NextHung ==
  \/ \E d \in ClockSteps : AdvanceClock(d)
  \/ \E c \in CallIds, input \in ValidNewInputs \cup ResumeInputs(KnownIds) :
       ActBegin(c, input, NoError)
  \/ \E c \in CallIds, modelInfo \in BOOLEAN : ActModelInfo(c, modelInfo, NoError)
  \/ \E c \in CallIds, content \in Responses : ActRespond(c, content, NoError)
  \/ \E id \in KnownIds : DeleteSessionTool([sessionId |-> id])

\* The backend is under no obligation to settle respond; the clock moves on
SpecHung == Init /\ [][NextHung]_vars /\ WF_vars(\E d \in ClockSteps : AdvanceClock(d))

-----------------------------------------------------------------------------
(* Two callers that resume the session of a first turn at the same time *)

TwoCallIds == {"c1", "c2"}

\* The store after one act call for a new task ran alone at time 0 and the
\* model asked for a tool
FirstTurn ==
  act([sessions |-> EmptyMap, detached |-> EmptyMap, toolSets |-> EmptyMap,
       lastCleanup |-> 0],
      0, randomUUID(1), NewInput(ModelId, Task, <<GetWeather>>),
      [clientThrows |-> NoError, infoThrows |-> NoError, modelInfo |-> TRUE,
       respondThrows |-> NoError, content |-> ToolCallAnswer]).st

InitResume ==
  /\ now = 0
  /\ sessions = FirstTurn.sessions
  /\ detached = FirstTurn.detached
  /\ toolSets = FirstTurn.toolSets
  /\ lastCleanup = FirstTurn.lastCleanup
  /\ nextId = 2
  /\ calls = [c \in TwoCallIds |-> IdleCall]
  /\ last = Did("init", NoId, FALSE)
  /\ steps = 0

\* What the callers bring: no tool results, or one of two results
NoonResult == <<[name |-> "get_weather", result |-> "noon"]>>
\* the results of two tools, in the order the model asked for them
TwoResults ==
  <<[name |-> "get_weather", result |-> "sunny"], [name |-> "get_time", result |-> "noon"]>>
CallerResults ==
  {<<>>, <<[name |-> "get_weather", result |-> "sunny"]>>, NoonResult, TwoResults}
CallerInputs(ids) ==
  [sessionId : ids, identifier : {""}, task : {<<>>}, tools : {<<>>},
   toolResults : CallerResults]

NextResume ==
  \/ \E c \in TwoCallIds, input \in CallerInputs(DOMAIN sessions) :
       ActBegin(c, input, NoError)
  \/ \E c \in TwoCallIds : ActModelInfo(c, TRUE, NoError)
  \/ \E c \in TwoCallIds, content \in Responses : ActRespond(c, content, NoError)

SpecResume == InitResume /\ [][NextResume]_vars

-----------------------------------------------------------------------------
(* New tasks that name a cached tool set: the schema of act in part_006    *)
(* (lines 26-40) has no toolSetId and act reads none, so the field is      *)
(* carried in the input and left alone                                     *)

\* The input of the tests of act.test.ts 133-137 and 142-146: a new task
\* with an identifier, a task, no tools and a toolSetId
NewInputWithToolSet(identifier, task, toolSetId) ==
  [sessionId |-> NoId, identifier |-> identifier, task |-> task, tools |-> <<>>,
   toolResults |-> <<>>, toolSetId |-> toolSetId]

\* The tool sets that get registered in these runs
CachedToolSets == [tools : {<<GetWeather>>, <<GetTime>>}, toolSetId : {NoId, CustomToolSetId}]

NextCached ==
  \/ \E d \in ClockSteps : AdvanceClock(d)
  \/ \E input \in CachedToolSets : RegisterTools(input)
  \/ \E c \in CallIds, id \in KnownIds \cup {CustomToolSetId} :
       ActBegin(c, NewInputWithToolSet(ModelId, Task, id), NoError)
  \/ \E c \in CallIds, modelInfo \in BOOLEAN : ActModelInfo(c, modelInfo, NoError)
  \/ \E c \in CallIds, content \in Responses : ActRespond(c, content, NoError)

SpecCached == Init /\ [][NextCached]_vars

-----------------------------------------------------------------------------
(* The store functions of sessions.ts called one by one, as its tests do *)

\* A store function was called about id with arg and left r
StoreStep(op, id, arg, r) ==
  /\ Commit(r.st, calls)
  /\ last' = Removing([Did(op, id, r.ret) EXCEPT !.arg = arg], r.st)
  /\ UNCHANGED now

CreateSession(modelId, tools, systemPrompt) ==
  /\ StoreStep("createSession", randomUUID(nextId), systemPrompt,
               [st |-> createSession(Store, now, randomUUID(nextId), modelId, tools,
                                     systemPrompt),
                ret |-> TRUE])
  /\ nextId' = nextId + 1

GetSession(id) ==
  /\ StoreStep("getSession", id, <<>>, getSession(Store, now, id))
  /\ UNCHANGED nextId

AppendMessage(id, message) ==
  /\ StoreStep("appendMessage", id, message, appendMessage(Store, now, id, message))
  /\ UNCHANGED nextId

\* (a variant whose deleteSession looks at the expiry of the record)
DeleteLiveSession(id) ==
  /\ StoreStep("deleteSession", id, <<>>, DeleteIfLive(Store, now, id))
  /\ UNCHANGED nextId

DeleteSession(id) ==
  /\ StoreStep("deleteSession", id, <<>>, deleteSession(Store, id))
  /\ UNCHANGED nextId

\* A store function that returns a number (count) or an array of ids
\* (keys) was called and left store st
ValueStep(op, id, st, count, keys) ==
  /\ Commit(st, calls)
  /\ last' = Removing([Did(op, id, TRUE) EXCEPT !.count = count, !.keys = keys], st)
  /\ UNCHANGED now

\* r is what getSessionCount() left and returned
CountStep(r) == ValueStep("getSessionCount", NoId, r.st, r.ret, {})

GetSessionCount ==
  /\ CountStep(getSessionCount(Store, now))
  /\ UNCHANGED nextId

NextStore ==
  \/ \E d \in ClockSteps : AdvanceClock(d)
  \/ \E systemPrompt \in {<<>>, SystemPrompt} : CreateSession(ModelId, <<>>, systemPrompt)
  \/ \E id \in KnownIds : GetSession(id)
  \/ \E id \in KnownIds : AppendMessage(id, MoreMessage)
  \/ \E id \in KnownIds : DeleteSession(id)
  \/ GetSessionCount

SpecStore == Init /\ [][NextStore]_vars

-----------------------------------------------------------------------------
(* getSessionInfo called on the sessions of the store, the clock moving on *)
(* by some milliseconds inside the call or not at all                      *)

\* by how much Date.now() moves between lines 123 and 143
InCallDelays == {0, 7}

\* r is what getSessionInfo left and returned: count is ttlRemainingMs
InfoStep(id, r) ==
  /\ Commit(r.st, calls)
  /\ last' = Removing([Did("getSessionInfo", id, r.ret # <<>>) EXCEPT
                         !.count = IF r.ret # <<>> THEN r.ret.ttlRemainingMs ELSE 0],
                      r.st)

GetSessionInfo(id, d) ==
  /\ InfoStep(id, getSessionInfoLater(Store, now, now + d, id))
  /\ now' = now + d
  /\ UNCHANGED nextId

NextInfo ==
  \/ \E d \in ClockSteps : AdvanceClock(d)
  \/ CreateSession(ModelId, <<>>, <<>>)
  \/ \E id \in KnownIds, d \in InCallDelays : GetSessionInfo(id, d)

SpecInfo == Init /\ [][NextInfo]_vars

-----------------------------------------------------------------------------
(* Sessions and tool sets together: the sweeps of sessions.ts *)

\* The tool-set ids a caller can name
ToolSetIds == KnownIds \cup {CustomToolSetId}

\* r is what registerToolSet left and returned
Registered(r) ==
  /\ Commit(r.st, calls)
  /\ last' = Removing([Did("registerToolSet", r.ret.id, TRUE) EXCEPT
                         !.arg = r.ret.tools,
                         !.replaced = {toolSets[j] : j \in {r.ret.id} \cap DOMAIN toolSets}],
                      r.st)
  /\ UNCHANGED now

RegisterToolSet(tools, id) ==
  /\ Registered(registerToolSet(Store, now, tools, id, randomUUID(nextId)))
  /\ nextId' = IF id # NoId THEN nextId ELSE nextId + 1

GetToolSet(id) ==
  /\ StoreStep("getToolSet", id, <<>>, getToolSet(Store, now, id))
  /\ UNCHANGED nextId

\* r is what listSessions() left and returned
Listed(r) == ValueStep("listSessions", NoId, r.st, Cardinality(r.ret), r.ret)

ListSessions ==
  /\ Listed(listSessions(Store, now))
  /\ UNCHANGED nextId

\* r is what cleanupExpiredSessions() left and returned
Cleaned(r) == ValueStep("cleanupExpiredSessions", NoId, r.st, r.ret, {})

CleanupExpiredSessions ==
  /\ Cleaned(cleanupExpiredSessions(Store, now))
  /\ UNCHANGED nextId

NextSweep ==
  \/ \E d \in ClockSteps : AdvanceClock(d)
  \/ CreateSession(ModelId, <<>>, <<>>)
  \/ \E id \in {NoId, CustomToolSetId} : RegisterToolSet(<<GetWeather>>, id)
  \/ \E id \in KnownIds : GetSession(id)
  \/ \E id \in ToolSetIds : GetToolSet(id)
  \/ ListSessions
  \/ GetSessionCount
  \/ CleanupExpiredSessions

SpecSweep == Init /\ [][NextSweep]_vars

-----------------------------------------------------------------------------
(* Every way out of the session store: the server's act and tools beside   *)
(* the store functions that remove records                                 *)

\* clearAllSessions(), which the tests call between two cases
ClearAllSessions ==
  /\ StoreStep("clearAllSessions", NoId, <<>>, [st |-> clearAllSessions(Store), ret |-> TRUE])
  /\ UNCHANGED nextId

\* The inputs of act in these runs: a new task, or a resume without results
LeaveInputs(ids) == {NewInput(ModelId, Task, <<>>)} \cup {[NoInput EXCEPT !.sessionId = id] : id \in ids}

NextLeave ==
  \/ \E d \in ClockSteps : AdvanceClock(d)
  \/ \E c \in CallIds, input \in LeaveInputs(DOMAIN sessions) : ActBegin(c, input, NoError)
  \/ \E c \in CallIds, e \in ThrownErrors : ActBegin(c, NewInput(ModelId, Task, <<>>), e)
  \/ \E c \in CallIds, modelInfo \in BOOLEAN : ActModelInfo(c, modelInfo, NoError)
  \/ \E c \in CallIds : ActRespond(c, PlainAnswer, NoError)
  \/ \E c \in CallIds, e \in ThrownErrors : ActRespond(c, <<>>, e)
  \/ \E input \in GetSessionInputs(DOMAIN sessions) : GetSessionTool(input)
  \/ \E id \in DOMAIN sessions : DeleteSessionTool([sessionId |-> id])
  \/ \E id \in DOMAIN sessions : GetSession(id)
  \/ \E id \in DOMAIN sessions : DeleteSession(id)
  \/ GetSessionCount
  \/ CleanupExpiredSessions
  \/ ClearAllSessions

SpecLeave == Init /\ [][NextLeave]_vars

-----------------------------------------------------------------------------
(* The tool-set cache of sessions.ts on its own *)

\* The ids a caller can give to registerToolSet: none, its own, or the id
\* of a tool set in the cache
RegisterIds == {NoId, CustomToolSetId} \cup DOMAIN toolSets

DeleteToolSet(id) ==
  /\ StoreStep("deleteToolSet", id, <<>>, deleteToolSet(Store, id))
  /\ UNCHANGED nextId

GetToolSetCount ==
  /\ ValueStep("getToolSetCount", NoId, Store, getToolSetCount(Store), {})
  /\ UNCHANGED nextId

\* clearAllToolSets(), which the tests call between two cases
ClearAllToolSets ==
  /\ StoreStep("clearAllToolSets", NoId, <<>>, [st |-> clearAllToolSets(Store), ret |-> TRUE])
  /\ UNCHANGED nextId

NextToolSets ==
  \/ \E d \in ClockSteps : AdvanceClock(d)
  \/ \E tools \in {<<GetWeather>>, <<GetTime>>}, id \in RegisterIds :
       RegisterToolSet(tools, id)
  \/ \E id \in ToolSetIds : GetToolSet(id)
  \/ \E id \in ToolSetIds : DeleteToolSet(id)
  \/ GetToolSetCount
  \/ ClearAllToolSets

SpecToolSets == Init /\ [][NextToolSets]_vars

-----------------------------------------------------------------------------
(* The tool-set functions beside the session functions, on one store *)

ListToolSets ==
  /\ ValueStep("listToolSets", NoId, Store, Cardinality(listToolSets(Store)), listToolSets(Store))
  /\ UNCHANGED nextId

NextBoth ==
  \/ \E d \in ClockSteps : AdvanceClock(d)
  \/ CreateSession(ModelId, <<>>, <<>>)
  \/ \E id \in DOMAIN sessions : DeleteSession(id)
  \/ GetSessionCount
  \/ CleanupExpiredSessions
  \/ ClearAllSessions
  \/ \E id \in {NoId} \cup DOMAIN toolSets : RegisterToolSet(<<GetWeather>>, id)
  \/ \E id \in DOMAIN toolSets : GetToolSet(id)
  \/ \E id \in DOMAIN toolSets : DeleteToolSet(id)
  \/ ListToolSets
  \/ GetToolSetCount
  \/ ClearAllToolSets

SpecBoth == Init /\ [][NextBoth]_vars

-----------------------------------------------------------------------------
(* Properties of the store functions, under SpecStore *)

\* C1: a call getSession(id) on a stored session returns absent, and the
\* record is gone, when now - lastAccessedAt > 30 minutes; at any smaller
\* gap it returns the session, with lastAccessedAt set to now and nothing
\* else of it changed.  So each read within 30 minutes of the previous
\* access keeps the session, whatever its age.
C1_GetSessionSlidingTTL ==
  [][last'.op = "getSession" /\ last'.id \in DOMAIN sessions =>
       IF now - sessions[last'.id].lastAccessedAt > 30 * 60 * 1000
         THEN /\ ~last'.ret
              /\ last'.id \notin DOMAIN sessions'
         ELSE /\ last'.ret
              /\ last'.id \in DOMAIN sessions'
              /\ sessions'[last'.id] = [sessions[last'.id] EXCEPT !.lastAccessedAt = now]]_vars

\* A session older than the TTL has just been read, and is still there
C1_ReadBeyondAge ==
  /\ last.op = "getSession"
  /\ last.ret
  /\ last.id \in DOMAIN sessions
  /\ now - sessions[last.id].createdAt > SESSION_TTL_MS
  /\ sessions[last.id].lastAccessedAt = now

\* C3 (as the code has it): appendMessage(id, m) on a live id returns true,
\* the log becomes the previous log followed by m and lastAccessedAt is
\* now; on an unknown or expired id it returns false and appends nothing:
\* every record still stored is as it was, and the records that left the
\* store were expired.
C3_AppendMessage ==
  [][last'.op = "appendMessage" =>
       IF last'.id \in DOMAIN sessions
            /\ now - sessions[last'.id].lastAccessedAt <= SESSION_TTL_MS
         THEN /\ last'.ret
              /\ last'.id \in DOMAIN sessions'
              /\ sessions'[last'.id] =
                   [sessions[last'.id] EXCEPT !.messages = Append(@, last'.arg),
                                              !.lastAccessedAt = now]
              /\ Len(sessions'[last'.id].messages) = Len(sessions[last'.id].messages) + 1
         ELSE /\ ~last'.ret
              /\ \A j \in DOMAIN sessions' :
                   j \in DOMAIN sessions /\ sessions'[j] = sessions[j]
              /\ \A j \in DOMAIN sessions \ DOMAIN sessions' :
                   now - sessions[j].lastAccessedAt > SESSION_TTL_MS]_vars

\* C3 as claimed: a call on an unknown or expired id returns false and
\* leaves the session store as it was
C3_NoMutationOnFailure ==
  [][last'.op = "appendMessage"
       /\ ~(last'.id \in DOMAIN sessions
              /\ now - sessions[last'.id].lastAccessedAt <= SESSION_TTL_MS)
       => ~last'.ret /\ sessions' = sessions]_vars

\* appendMessage has just failed on the id of a stored session that had
\* expired, and took it out of the store, while another session holds an
\* appended message
C3_FailedAppend ==
  /\ last.op = "appendMessage"
  /\ ~last.ret
  /\ last.id \in last.removed
  /\ \E j \in DOMAIN sessions :
       /\ sessions[j].messages # <<>>
       /\ sessions[j].messages[Len(sessions[j].messages)] = MoreMessage

-----------------------------------------------------------------------------
(* Properties of act and the tools, under Spec *)

\* The session s is stored and has not expired
Live(s) == s \in DOMAIN sessions /\ now - sessions[s].lastAccessedAt <= SESSION_TTL_MS

\* The step is the first of an act call
Begins == last'.op \in {"act", "await"} /\ calls[last'.slot].pc = "idle"

\* A backend that lets the call through and answers content
Answering(content) ==
  [clientThrows |-> NoError, infoThrows |-> NoError, modelInfo |-> TRUE,
   respondThrows |-> NoError, content |-> content]

\* The backends that make a call fail: the client throws, getModelInfo
\* throws or finds no model, respond throws
FailingWorlds ==
  {[Answering(<<>>) EXCEPT !.clientThrows = e] : e \in ThrownErrors}
    \cup {[Answering(<<>>) EXCEPT !.infoThrows = e] : e \in ThrownErrors}
    \cup {[Answering(<<>>) EXCEPT !.modelInfo = FALSE]}
    \cup {[Answering(<<>>) EXCEPT !.respondThrows = e] : e \in ThrownErrors}

\* The call that ran to run failed, its session is not found, and the
\* count is the count before
FailsClean(before, run) ==
  /\ ~run.call.ret.success
  /\ run.call.isNewSession
  /\ ~getSession(run.st, now, run.call.sid).ret
  /\ getSessionCount(run.st, now).ret = before

\* C2: an act call that creates a session and then fails (model not
\* loaded, or the client, getModelInfo or respond throws) has deleted that
\* session when it returns: the session is not stored, whatever ran during
\* the call's awaits; and when nothing else ran, getSession does not find
\* it and getSessionCount() returns what it returned before the call.
C2_FailedNewSessionIsDeleted ==
  /\ (last.op = "act" /\ last.call.isNewSession /\ ~last.call.ret.success)
       => last.call.sid \notin DOMAIN sessions
  /\ \A input \in ValidNewInputs, world \in FailingWorlds :
       FailsClean(getSessionCount(Store, now).ret,
                  act(getSessionCount(Store, now).st, now, randomUUID(nextId), input, world))

\* A call that created a session has just failed, beside a stored session
C2_NewCallFailed ==
  /\ last.op = "act"
  /\ last.call.isNewSession
  /\ ~last.call.ret.success
  /\ last.call.sid \notin DOMAIN sessions
  /\ DOMAIN sessions # {}

\* C4: when an act call returns success with sessionId s, the session s is
\* stored and its log ends with the assistant message holding the trimmed
\* text of the backend
C4_SuccessMeansStored ==
  (last.op = "act" /\ last.call.ret.success) =>
    /\ last.call.ret.data.sessionId \in DOMAIN sessions
    /\ sessions[last.call.ret.data.sessionId].messages # <<>>
    /\ sessions[last.call.ret.data.sessionId].messages[
         Len(sessions[last.call.ret.data.sessionId].messages)]
         = Msg("assistant", Trim(last.arg))

\* C5: a successful turn returns done=false with the parsed tool calls
\* exactly when the parser yields a non-empty list, and done=true with no
\* toolCalls otherwise; the result carries the session id, responseLength
\* is the length of the trimmed response and messageCount is the length of
\* the log once the assistant message is appended to it
C5_TurnResult ==
  [][(last'.op = "act" /\ last'.call.ret.success) =>
       LET data == last'.call.ret.data
           parsed == parseToolCalls(Trim(last'.arg))
       IN /\ data.done = (parsed.isNull \/ Len(parsed.calls) = 0)
          /\ ~data.done => data.toolCalls = parsed.calls
          /\ data.done => "toolCalls" \notin DOMAIN data
          /\ data.sessionId = last'.call.sid
          /\ data.stats.responseLength = TextLen(Trim(last'.arg))
          /\ data.stats.messageCount
               = Len(SessionRef(Store, last'.call.sid).messages) + 1]_vars

\* C6: a successful turn of act removes no session that has not expired,
\* and the session it answered in, if it was live, is then read by the
\* get-session tool and resumed by act; a session leaves the store only
\* when it has expired, when a tool deletes it, or when the call that
\* created it fails.
C6_DoneKeepsSession ==
  [][/\ (last'.op = "act" /\ last'.call.ret.success) =>
          /\ \A j \in DOMAIN sessions : Live(j) => j \in DOMAIN sessions'
          /\ Live(last'.call.sid) =>
               /\ getSessionTool(Store', now', [sessionId |-> last'.call.sid,
                                                includeMessages |-> FALSE,
                                                deleteAfterRead |-> FALSE]).ret.success
               /\ ActStart(Store', now', randomUUID(nextId'),
                           [NoInput EXCEPT !.sessionId = last'.call.sid],
                           NoError).call.pc = "getModelInfo"
     /\ \A j \in DOMAIN sessions \ DOMAIN sessions' :
          \/ ~Live(j)
          \/ last'.op \in {"getSessionTool", "deleteSessionTool"} /\ last'.id = j
          \/ /\ last'.op = "act"
             /\ last'.call.sid = j
             /\ last'.call.isNewSession
             /\ ~last'.call.ret.success]_vars

\* A session whose turn ended with the plain answer has been read by the
\* get-session tool at a later time
C6_ReadAfterDone ==
  /\ last.op = "getSessionTool"
  /\ last.ret
  /\ last.id \in DOMAIN sessions
  /\ now > sessions[last.id].createdAt
  /\ sessions[last.id].messages[Len(sessions[last.id].messages)]
       = Msg("assistant", Trim(PlainAnswer))

\* C7: when an act call that resumed a live session fails (the client
\* throws, no model is loaded, getModelInfo or respond throws), the session
\* is still stored and live, and the same resume is accepted again.
C7_ResumeFailureKeepsSession ==
  [][(/\ last'.op = "act"
      /\ ~last'.call.ret.success
      /\ ~last'.call.isNewSession
      /\ last'.call.sid # NoId
      /\ Live(last'.call.sid)) =>
       /\ last'.call.sid \in DOMAIN sessions'
       /\ getSession(Store', now', last'.call.sid).ret
       /\ ActStart(Store', now', randomUUID(nextId'), last'.call.input,
                   NoError).call.pc = "getModelInfo"]_vars

\* A resumed call has just failed after it called the backend, and its
\* session is stored
C7_ResumeFailed ==
  /\ last.op = "act"
  /\ ~last.call.ret.success
  /\ ~last.call.isNewSession
  /\ last.call.backend # <<>>
  /\ last.call.sid \in DOMAIN sessions

\* C8: an act call without sessionId that lacks the identifier or the task
\* returns success=false with code INVALID_INPUT, leaves the session store
\* and the session count as they were, and calls no backend.
C8_InvalidNewInput ==
  [][(/\ Begins
      /\ last'.call.input.sessionId = NoId
      /\ (last'.call.input.identifier = "" \/ last'.call.input.task = <<>>)) =>
       /\ last'.op = "act"
       /\ ~last'.call.ret.success
       /\ last'.call.ret.error.code = "INVALID_INPUT"
       /\ last'.call.backend = <<>>
       /\ sessions' = sessions
       /\ getSessionCount(Store', now').ret = getSessionCount(Store, now).ret]_vars

\* A new-task call without identifier or task has just been refused, beside
\* a stored session
C8_Refused ==
  /\ last.op = "act"
  /\ last.call.input \in InvalidNewInputs
  /\ ~last.call.ret.success
  /\ DOMAIN sessions # {}

\* C9 (as the code has it): an act call whose sessionId is unknown or
\* expired returns success=false with code INVALID_INPUT and the message
\* 'Session not found or expired', calls no backend and appends nothing:
\* every session still stored is as it was, and the sessions that left the
\* store had expired.
C9_UnknownSessionRefused ==
  [][(/\ Begins
      /\ last'.call.input.sessionId # NoId
      /\ ~Live(last'.call.input.sessionId)) =>
       /\ last'.op = "act"
       /\ ~last'.call.ret.success
       /\ last'.call.ret.message = "Session not found or expired"
       /\ last'.call.ret.error.code = "INVALID_INPUT"
       /\ last'.call.backend = <<>>
       /\ \A j \in DOMAIN sessions' : j \in DOMAIN sessions /\ sessions'[j] = sessions[j]
       /\ \A j \in DOMAIN sessions \ DOMAIN sessions' : ~Live(j)]_vars

\* C9 as claimed: such a call leaves the session store as it was
C9_NoMutationOfStore ==
  [][(/\ Begins
      /\ last'.call.input.sessionId # NoId
      /\ ~Live(last'.call.input.sessionId)) =>
       /\ ~last'.call.ret.success
       /\ last'.call.ret.error.code = "INVALID_INPUT"
       /\ last'.call.backend = <<>>
       /\ sessions' = sessions]_vars

\* A resume of a stored session that had expired has just been refused,
\* and took the session out of the store
C9_ResumeRefused ==
  /\ last.op = "act"
  /\ last.call.input.sessionId # NoId
  /\ last.call.ret.message = "Session not found or expired"
  /\ last.call.input.sessionId \in last.removed

\* The two calls of the scenario, made one after the other on store st
SunnyResult == <<[name |-> "get_weather", result |-> "sunny"]>>
TwoCallsFirst(st, s) ==
  act(st, now, s, NewInput(ModelId, Task, <<GetWeather>>), Answering(ToolCallAnswer))
TwoCallsSecond(first, s, fresh) ==
  act(first.st, now, fresh, [NoInput EXCEPT !.sessionId = s, !.toolResults = SunnyResult],
      Answering(PlainAnswer))

\* the roles of a log
Roles(log) == [i \in 1..Len(log) |-> log[i].role]

\* the first call asks for one tool call, the second is done, on session s
TwoCallsResults(first, second, s) ==
  /\ first.call.ret.success
  /\ ~first.call.ret.data.done
  /\ Len(first.call.ret.data.toolCalls) = 1
  /\ first.call.ret.data.sessionId = s
  /\ second.call.ret.success
  /\ second.call.ret.data.done
  /\ second.call.ret.data.sessionId = s

\* the log the calls first and second leave in session s is log
TwoCallsLeave(first, second, s, log) ==
  TwoCallsResults(first, second, s) /\ second.st.sessions[s].messages = log

\* the log the scenario leaves in session s, given its first call, is log
ScenarioFrom(first, s, fresh, log) ==
  TwoCallsLeave(first, TwoCallsSecond(first, s, fresh), s, log)

\* the log the calls first and second leave in session s has length n
TwoCallsLeaveLength(first, second, s, n) ==
  TwoCallsResults(first, second, s) /\ Len(second.st.sessions[s].messages) = n

ScenarioLengthFrom(first, s, fresh, n) ==
  TwoCallsLeaveLength(first, TwoCallsSecond(first, s, fresh), s, n)

\* C10 (as the code has it): in the two-call scenario the second call
\* returns done=true with the same session id, and the log of the session
\* has length 5: system prompt, user task, assistant tool-call text, user
\* tool-result message, final assistant answer, in this order.
C10_TwoCallLog ==
  ScenarioFrom(TwoCallsFirst(Store, randomUUID(nextId)),
               randomUUID(nextId), randomUUID(nextId + 1),
               << Msg("system", buildToolSystemPrompt(<<GetWeather>>)),
                  Msg("user", <<"hi">>),
                  Msg("assistant", ToolCallAnswer),
                  Msg("user", <<"[", "get_weather", "]: ", "sunny">>),
                  Msg("assistant", <<"It's sunny">>) >>)

\* C10 as claimed: the log of the session then has length 4
C10_LogOfLengthFour ==
  ScenarioLengthFrom(TwoCallsFirst(Store, randomUUID(nextId)),
                     randomUUID(nextId), randomUUID(nextId + 1), 4)

\* The second call of the scenario has just returned done=true, and the log
\* holds the five messages
C10_SecondCallDone ==
  /\ last.op = "act"
  /\ last.call.input.toolResults = SunnyResult
  /\ last.call.ret.success
  /\ last.call.ret.data.done
  /\ last.call.sid \in DOMAIN sessions
  /\ sessions[last.call.sid].tools = <<GetWeather>>
  /\ Roles(sessions[last.call.sid].messages)
       = <<"system", "user", "assistant", "user", "assistant">>

\* The get-session tool result ret is a success that reports text as
\* lastResponse, and text has n characters
ReadsBack(ret, text, n) ==
  /\ ret.success
  /\ ret.data.hasLastResponse
  /\ ret.data.lastResponse = text
  /\ TextLen(ret.data.lastResponse) = n

\* C11: a successful act result carries no response field, and get-session
\* on its sessionId, called as the act call returns, reports as lastResponse
\* the trimmed text of the backend, whose length is stats.responseLength
C11_ResponseReadBack ==
  (last.op = "act" /\ last.call.ret.success) =>
    /\ "response" \notin DOMAIN last.call.ret.data
    /\ ReadsBack(getSessionTool(Store, now,
                                [sessionId |-> last.call.ret.data.sessionId,
                                 includeMessages |-> FALSE,
                                 deleteAfterRead |-> FALSE]).ret,
                 Trim(last.arg), last.call.ret.data.stats.responseLength)

-----------------------------------------------------------------------------
(* Deletion and expiry, under SpecStore *)

\* The delete-session tool call r was refused with INVALID_INPUT and left
\* the store st
Refuses(r, st) ==
  /\ ~r.ret.success
  /\ r.ret.error.code = "INVALID_INPUT"
  /\ r.st = st

\* C12: deleteSession(id) on an id that has no record returns false and
\* changes nothing; on an id that has a record it returns true and removes
\* that record alone; a second call right after it returns false and
\* changes nothing; and in the false case the delete-session tool returns
\* an error with code INVALID_INPUT.
C12_DeleteSession ==
  [][last'.op = "deleteSession" =>
       /\ last'.ret = (last'.id \in DOMAIN sessions)
       /\ sessions' = Restrict(sessions, DOMAIN sessions \ {last'.id})
       /\ last'.id \notin DOMAIN sessions => sessions' = sessions
       /\ toolSets' = toolSets
       /\ lastCleanup' = lastCleanup
       /\ ~deleteSession(Store', last'.id).ret
       /\ deleteSession(Store', last'.id).st = Store'
       /\ Refuses(deleteSessionTool(Store', [sessionId |-> last'.id]), Store')
       /\ deleteSessionTool(Store, [sessionId |-> last'.id]).ret.success
            = (last'.id \in DOMAIN sessions)]_vars

\* With the clock still at 0, deleteSession has just returned false for the
\* id of the first session created: the session was deleted by an earlier
\* call, and this is a second call on it
C12_SecondDelete ==
  /\ last.op = "deleteSession"
  /\ ~last.ret
  /\ now = 0
  /\ nextId > 1
  /\ last.id = randomUUID(1)
  /\ last.id \notin DOMAIN sessions

\* C13: deleteSession looks at no expiry.  Called on the id of a record
\* that is in the store and whose TTL has passed (nothing has swept it or
\* looked it up since) it returns true and removes the record; it returns
\* false exactly when the store holds no record of that id.
C13_DeleteIgnoresExpiry ==
  [][last'.op = "deleteSession" =>
       /\ (last'.id \in DOMAIN sessions /\ now - sessions[last'.id].lastAccessedAt > SESSION_TTL_MS)
            => (last'.ret /\ last'.id \notin DOMAIN sessions')
       /\ ~last'.ret <=> last'.id \notin DOMAIN sessions]_vars

\* deleteSession has just returned true for a record that had expired,
\* while the store holds another session
C13_DeletedExpired ==
  /\ last.op = "deleteSession"
  /\ last.ret
  /\ last.id \in last.expired
  /\ DOMAIN sessions # {}

\* In the store st that a call left, the record of id is gone: listSessions
\* does not list it and deleteSession returns false
GoneFrom(st, id) ==
  /\ id \notin DOMAIN st.sessions
  /\ id \notin listSessions(st, now).ret
  /\ ~deleteSession(st, id).ret

\* C14: for every record in the store that has expired, each of getSession,
\* getSessionInfo, appendMessage, an act call that resumes it and the
\* get-session tool returns absent (false, an error) and takes the record
\* out of the store: afterwards listSessions does not contain the id and
\* deleteSession(id) returns false.
C14_ExpiredLookupRemoves ==
  \A id \in DOMAIN sessions :
    now - sessions[id].lastAccessedAt > SESSION_TTL_MS =>
      /\ ~getSession(Store, now, id).ret
      /\ GoneFrom(getSession(Store, now, id).st, id)
      /\ getSessionInfo(Store, now, id).ret = <<>>
      /\ GoneFrom(getSessionInfo(Store, now, id).st, id)
      /\ ~appendMessage(Store, now, id, MoreMessage).ret
      /\ GoneFrom(appendMessage(Store, now, id, MoreMessage).st, id)
      /\ ~ActStart(Store, now, randomUUID(nextId), [NoInput EXCEPT !.sessionId = id],
                   NoError).call.ret.success
      /\ GoneFrom(ActStart(Store, now, randomUUID(nextId), [NoInput EXCEPT !.sessionId = id],
                           NoError).st, id)
      /\ ~getSessionTool(Store, now, [sessionId |-> id, includeMessages |-> FALSE,
                                      deleteAfterRead |-> FALSE]).ret.success
      /\ GoneFrom(getSessionTool(Store, now, [sessionId |-> id, includeMessages |-> FALSE,
                                              deleteAfterRead |-> FALSE]).st, id)

\* getSession has just returned absent for a record that had expired and
\* removed it itself: no sweep ran in the call (the last one is less than
\* the interval back), and another session is still stored
C14_LookupRemoved ==
  /\ last.op = "getSession"
  /\ ~last.ret
  /\ last.id \in last.expired
  /\ last.id \notin DOMAIN sessions
  /\ lastCleanup < now
  /\ DOMAIN sessions # {}

-----------------------------------------------------------------------------
(* The sweeps, under SpecSweep *)

\* The records of the Map before whose TTL has passed at time t
Stale(before, t) == {id \in DOMAIN before : t - before[id].lastAccessedAt > SESSION_TTL_MS}

\* The Map after is the Map before without its stale records
SweptTo(before, after, t) ==
  /\ DOMAIN after = DOMAIN before \ Stale(before, t)
  /\ \A id \in DOMAIN after : after[id] = before[id]

\* C15: cleanupExpiredSessions removes exactly the session records and the
\* tool-set records with now - lastAccessedAt > TTL, leaves every other
\* record as it was, and returns the number of records it removed, summed
\* over both stores.
C15_CleanupExpiredSessions ==
  [][last'.op = "cleanupExpiredSessions" =>
       /\ SweptTo(sessions, sessions', now)
       /\ SweptTo(toolSets, toolSets', now)
       /\ last'.count = Cardinality(Stale(sessions, now)) + Cardinality(Stale(toolSets, now))
       /\ last'.count = Cardinality(DOMAIN sessions \ DOMAIN sessions')
                        + Cardinality(DOMAIN toolSets \ DOMAIN toolSets')]_vars

\* cleanupExpiredSessions has just removed a session and a tool set and
\* returned 2, and has left a record that had not expired
C15_SweptBoth ==
  /\ last.op = "cleanupExpiredSessions"
  /\ last.count = 2
  /\ Cardinality(last.removed) = 1
  /\ Cardinality(last.removedToolSets) = 1
  /\ DOMAIN sessions \cup DOMAIN toolSets # {}

\* The store functions that start with maybeCleanup()
SweepingOps == {"createSession", "getSession", "listSessions", "getSessionCount"}

\* C16: when createSession, getSession, listSessions or getSessionCount runs
\* more than 5 minutes after the last sweep, both stores are swept before
\* the function does its own work (what it returns and does is computed on
\* the swept store) and lastCleanup becomes now; when 5 minutes or less
\* have passed, no sweep runs: no tool set and no session other than the
\* one addressed leaves the store, counts and lists include the stale
\* records, and lastCleanup is unchanged.
C16_MaybeCleanup ==
  [][last'.op \in SweepingOps =>
       IF now - lastCleanup > 5 * 60 * 1000
         THEN /\ lastCleanup' = now
              /\ SweptTo(toolSets, toolSets', now)
              /\ DOMAIN sessions' \cap Stale(sessions, now) = {}
              /\ DOMAIN sessions \ Stale(sessions, now) \subseteq DOMAIN sessions'
              /\ last'.op = "getSessionCount" =>
                   last'.count = Cardinality(DOMAIN sessions \ Stale(sessions, now))
              /\ last'.op = "listSessions" =>
                   last'.keys = DOMAIN sessions \ Stale(sessions, now)
              /\ last'.op = "getSession" =>
                   last'.ret = (last'.id \in DOMAIN sessions \ Stale(sessions, now))
              /\ last'.op = "createSession" =>
                   DOMAIN sessions' = (DOMAIN sessions \ Stale(sessions, now)) \cup {last'.id}
         ELSE /\ lastCleanup' = lastCleanup
              /\ toolSets' = toolSets
              /\ DOMAIN sessions \ {last'.id} \subseteq DOMAIN sessions'
              /\ last'.op = "getSessionCount" => last'.count = Cardinality(DOMAIN sessions)
              /\ last'.op = "listSessions" => last'.keys = DOMAIN sessions]_vars

\* listSessions has just run a sweep that removed a session and a tool set
\* and set lastCleanup
C16_ListSwept ==
  /\ last.op = "listSessions"
  /\ lastCleanup = now
  /\ last.removed # {}
  /\ last.removedToolSets # {}
  /\ last.keys = DOMAIN sessions

-----------------------------------------------------------------------------
(* What a session holds, under Spec *)

\* how many messages of a log have the role
RECURSIVE CountRole(_, _)
CountRole(log, role) ==
  IF log = <<>> THEN 0
  ELSE (IF Head(log).role = role THEN 1 ELSE 0) + CountRole(Tail(log), role)

\* The info accessor call r reports a session of n tools whose log has
\* others messages that are not the system message, and the log of the
\* record starts with the one system message exactly when n > 0
RoundTrip(r, session, n, others) ==
  /\ r.ret # <<>>
  /\ r.ret.toolCount = n
  /\ r.ret.messageCount = others + (IF n > 0 THEN 1 ELSE 0)
  /\ CountRole(session.messages, "system") = (IF n > 0 THEN 1 ELSE 0)
  /\ n > 0 => session.messages[1].role = "system"

\* what getSessionInfo reports of session id in the store that the first
\* part of a new-task call with tool list T leaves
RoundTripAfter(started, id, T) ==
  /\ started.call.pc = "getModelInfo"
  /\ RoundTrip(getSessionInfo(started.st, now, id), started.st.sessions[id], Len(T), 1)

\* C17: for a session that a new-task act call with tool list T started,
\* getSessionInfo reports toolCount = |T|, and messageCount is the number
\* of user and assistant messages plus one exactly when T is not empty:
\* the log then starts with the one system message, and has none otherwise.
C17_InfoRoundTrip ==
  /\ \A T \in ToolLists \cup {<<GetWeather, GetTime>>} :
       RoundTripAfter(ActStart(Store, now, randomUUID(nextId), NewInput(ModelId, Task, T),
                               NoError),
                      randomUUID(nextId), T)
  /\ \A id \in DOMAIN sessions :
       now - sessions[id].lastAccessedAt <= SESSION_TTL_MS =>
         RoundTrip(getSessionInfo(Store, now, id), sessions[id], Len(sessions[id].tools),
                   CountRole(sessions[id].messages, "user")
                     + CountRole(sessions[id].messages, "assistant"))
  /\ (last.op \in {"act", "await"} /\ last.call.isNewSession
        /\ last.call.sid \in DOMAIN sessions) =>
       sessions[last.call.sid].tools = last.call.input.tools

\* A new-task call with one tool has just started a session, next to a
\* session without tools: the logs hold two messages and one
C17_StartedWithTools ==
  /\ last.op = "await"
  /\ last.call.isNewSession
  /\ Len(last.call.input.tools) = 1
  /\ last.call.sid \in DOMAIN sessions
  /\ Len(sessions[last.call.sid].messages) = 2
  /\ sessions[last.call.sid].messages[1].role = "system"
  /\ \E j \in DOMAIN sessions :
       sessions[j].tools = <<>> /\ sessions[j].messages[1].role = "user"

-----------------------------------------------------------------------------
(* Errors and result envelopes, under SpecTools *)

\* The error codes of types.ts
ErrorCodes ==
  {"MODEL_NOT_FOUND", "MODEL_NOT_LOADED", "CONNECTION_FAILED", "INVALID_INPUT",
   "LOAD_FAILED", "UNLOAD_FAILED", "UNKNOWN"}

\* r is a result envelope: success and message, and then either data and
\* no error, or no data and an error with a code and a message that is not
\* empty
Envelope(r) ==
  /\ {"success", "message"} \subseteq DOMAIN r
  /\ r.success \in BOOLEAN
  /\ IF r.success
       THEN "data" \in DOMAIN r /\ "error" \notin DOMAIN r
       ELSE /\ "error" \in DOMAIN r
            /\ "data" \notin DOMAIN r
            /\ DOMAIN r.error = {"code", "message"}
            /\ r.error.code \in ErrorCodes
            /\ r.error.message # ""

\* C18: when the client, getModelInfo or respond throws during an act call,
\* the call returns in that step, and what it returns is a result envelope
\* with success=false, the message 'Failed to run task', an error code and
\* an error message; and every act call that returns after it reached the
\* backend returns a result envelope.
C18_NoExceptionEscapes ==
  /\ (last.op \in {"act", "await"} /\ last.thrown # NoError) =>
       /\ last.op = "act"
       /\ Envelope(last.call.ret)
       /\ ~last.call.ret.success
       /\ last.call.ret.message = "Failed to run task"
       /\ last.call.ret.error.message
            = (IF last.thrown.kind # "Error" THEN "Unknown error"
               ELSE IF last.thrown.message # "" THEN last.thrown.message
               ELSE "Failed to run task")
  /\ (last.op = "act" /\ last.call.sid # NoId) => Envelope(last.call.ret)

\* respond has just rejected with a string, and the call returned an error
\* result
C18_RespondThrew ==
  /\ last.op = "act"
  /\ last.thrown.kind = "string"
  /\ last.call.backend = <<"getModelInfo", "respond">>
  /\ ~last.call.ret.success
  /\ last.call.ret.error.message = "Unknown error"

\* The code each thrown value is to be reported with: <<its text as a
\* string, the code>>
ExpectedCodes ==
  { <<"ECONNREFUSED", "CONNECTION_FAILED">>,
    <<"WebSocket connection failed", "CONNECTION_FAILED">>,
    <<"Failed to connect", "CONNECTION_FAILED">>,
    <<"Invalid connection", "CONNECTION_FAILED">>,
    <<"Model not found", "MODEL_NOT_LOADED">>,
    <<"No loaded model with identifier", "MODEL_NOT_LOADED">>,
    <<"socket not found", "MODEL_NOT_LOADED">>,
    <<"Invalid parameter", "INVALID_INPUT">>,
    <<"Validation failed", "INVALID_INPUT">>,
    <<"Unknown SDK error", "UNKNOWN">>,
    <<"Some random error", "UNKNOWN">>,
    <<"string error", "UNKNOWN">>,
    <<"", "UNKNOWN">> }
ExpectedCode(error) == (CHOOSE p \in ExpectedCodes : p[1] = error.message)[2]

\* C19 (as the code has it): every exception caught during an act turn is
\* reported with one of the codes MODEL_NOT_LOADED, CONNECTION_FAILED,
\* INVALID_INPUT and UNKNOWN, chosen by the substrings of the lower-cased
\* error text: 'not found' or 'no loaded model', else 'connect',
\* 'econnrefused' or 'websocket', else 'invalid' or 'validation', else
\* UNKNOWN.
C19_CaughtErrorCode ==
  /\ (last.op = "act" /\ last.thrown # NoError) =>
       /\ last.call.ret.error.code
            \in {"MODEL_NOT_LOADED", "CONNECTION_FAILED", "INVALID_INPUT", "UNKNOWN"}
       /\ last.call.ret.error.code = ExpectedCode(last.thrown)
  /\ \A e \in Errors : mapErrorCode(e) = ExpectedCode(e)

\* C19 as claimed: the code is one of MODEL_NOT_LOADED, CONNECTION_FAILED
\* and UNKNOWN
C19_ThreeCodes ==
  (last.op = "act" /\ last.thrown # NoError) =>
    last.call.ret.error.code \in {"MODEL_NOT_LOADED", "CONNECTION_FAILED", "UNKNOWN"}

\* getModelInfo has just rejected with the Error 'Invalid parameter', and
\* the call reported INVALID_INPUT
C19_InvalidReported ==
  /\ last.op = "act"
  /\ last.thrown = Thrown("Error", <<"Invalid", " ", "parameter">>)
  /\ last.call.backend = <<"getModelInfo">>
  /\ last.call.ret.error.code = "INVALID_INPUT"

\* r is the result envelope of an act call: on success its data holds the
\* session id and the done flag
ActEnvelope(r) ==
  /\ Envelope(r)
  /\ r.success =>
       /\ {"sessionId", "done"} \subseteq DOMAIN r.data
       /\ r.data.sessionId # NoId
       /\ r.data.done \in BOOLEAN

\* C20: every result of act, get-session, delete-session and register-tools
\* has success and a message; with success=true it has data and no error
\* (for act, data holds sessionId and the done flag); with success=false it
\* has an error with a code and a message that is not empty, and no data.
C20_ResultEnvelope ==
  /\ last.op = "act" => ActEnvelope(last.call.ret)
  /\ \A id \in KnownIds, messages \in BOOLEAN, del \in BOOLEAN :
       Envelope(getSessionTool(Store, now, [sessionId |-> id, includeMessages |-> messages,
                                            deleteAfterRead |-> del]).ret)
  /\ \A id \in KnownIds : Envelope(deleteSessionTool(Store, [sessionId |-> id]).ret)
  /\ \A input \in RegisterInputs :
       /\ Envelope(registerTools(Store, now, input, randomUUID(nextId)).ret)
       /\ registerTools(Store, now, input, randomUUID(nextId)).ret.success

\* An act call has just returned an error result for an Error without
\* message, in a store that holds a tool set register-tools put there and a
\* session of an earlier call
C20_ErrorWithoutMessage ==
  /\ last.op = "act"
  /\ last.thrown = Thrown("Error", <<>>)
  /\ ~last.call.ret.success
  /\ last.call.ret.error.message = "Failed to run task"
  /\ DOMAIN toolSets # {}
  /\ DOMAIN sessions # {}

-----------------------------------------------------------------------------
(* Properties of the tool-set cache, under SpecToolSets *)

\* The tool lists a caller registers
RegisteredLists == {<<GetWeather>>, <<GetTime>>}

\* What a registerToolSet(tools, id) over an entry of id leaves: the entry
\* is the new one alone, stamped now, and the rest of the cache is as it was
ReplacedBy(tools, id) ==
  /\ getToolSet(Store', now', id).ret
  /\ getToolSet(Store', now', id).toolSet.tools = tools
  /\ toolSets'[id] = [id |-> id, tools |-> tools, createdAt |-> now,
                      lastAccessedAt |-> now]
  /\ getToolSetCount(Store') = getToolSetCount(Store)
  /\ DOMAIN toolSets' = DOMAIN toolSets
  /\ \A j \in DOMAIN toolSets \ {id} : toolSets'[j] = toolSets[j]

\* C21: registerToolSet(tools, id) with an id that has an entry replaces the
\* entry: getToolSet(id) then returns the new tools and nothing of the old
\* ones, createdAt and lastAccessedAt are the time of the call, the number
\* of tool sets is the same and every other tool set is as it was
C21_RegisterReplaces ==
  [][\A tools \in RegisteredLists : \A id \in DOMAIN toolSets :
       RegisterToolSet(tools, id) => ReplacedBy(tools, id)]_vars

\* An entry made earlier with other tools was overwritten while another
\* tool set was in the cache
C21_Overwritten ==
  /\ last.op = "registerToolSet"
  /\ \E old \in last.replaced :
       /\ old.id = last.id
       /\ old.tools # last.arg
       /\ old.createdAt < now
  /\ toolSets[last.id].tools = last.arg
  /\ Cardinality(DOMAIN toolSets) > 1

\* What getToolSet(id) does with the record rec of id at time t: gone from
\* the cache and absent for the caller when rec was last read more than the
\* TTL ago, else returned with lastAccessedAt = t and stored so
ReadToolSet(id, rec, t) ==
  IF t - rec.lastAccessedAt > SESSION_TTL_MS
    THEN /\ ~last'.ret
         /\ ~getToolSet(Store, t, id).ret
         /\ id \notin DOMAIN toolSets'
         /\ last'.removedToolSets = {id}
    ELSE /\ last'.ret
         /\ getToolSet(Store, t, id).toolSet = [rec EXCEPT !.lastAccessedAt = t]
         /\ toolSets'[id] = [rec EXCEPT !.lastAccessedAt = t]
         /\ last'.removedToolSets = {}

\* C22: getToolSet(id) returns absent and removes the record when
\* now - lastAccessedAt > TTL, and otherwise returns the tool set with
\* lastAccessedAt set to now, whatever its age: a tool set read at gaps of
\* at most the TTL is never lost; no other record changes
C22_GetToolSetSlidingTTL ==
  [][\A id \in DOMAIN toolSets :
       GetToolSet(id) =>
         /\ ReadToolSet(id, toolSets[id], now)
         /\ \A j \in DOMAIN toolSets \ {id} :
              j \in DOMAIN toolSets' /\ toolSets'[j] = toolSets[j]]_vars

\* A tool set older than the TTL was returned, its last read a full TTL
\* before
C22_ReadBeyondAgeOfToolSet ==
  /\ last.op = "getToolSet"
  /\ last.ret
  /\ last.id \in DOMAIN toolSets
  /\ now - toolSets[last.id].createdAt > SESSION_TTL_MS
  /\ toolSets[last.id].lastAccessedAt = now

\* A tool set last read more than the TTL ago was looked up and removed
C22_ExpiredToolSetRemoved ==
  /\ last.op = "getToolSet"
  /\ ~last.ret
  /\ last.removedToolSets = {last.id}

-----------------------------------------------------------------------------
(* Properties of the get-session tool, under Spec *)

\* The places of the assistant messages in a log
AssistantAt(messages) == {i \in 1..Len(messages) : messages[i].role = "assistant"}

Latest(places) == CHOOSE i \in places : \A j \in places : j <= i

\* data carries as lastResponse the content of the latest assistant message
\* of the log, or none if the log has none
LastResponseOf(data, messages, places) ==
  IF places = {}
    THEN ~data.hasLastResponse
    ELSE data.hasLastResponse /\ data.lastResponse = messages[Latest(places)].content

\* r is the answer of get-session to input about the stored session
DescribesSession(r, session, input) ==
  /\ r.success
  /\ r.data.sessionId = session.id
  /\ r.data.modelId = session.modelId
  /\ r.data.messageCount = Len(session.messages)
  /\ LastResponseOf(r.data, session.messages, AssistantAt(session.messages))
  /\ r.data.hasMessages = input.includeMessages
  /\ input.includeMessages => r.data.messages = session.messages

\* r is the answer of get-session to input in the store st at time t
AnswersGetSession(r, st, t, input) ==
  IF input.sessionId \in DOMAIN st.sessions /\ ~Expired(st.sessions[input.sessionId], t)
    THEN DescribesSession(r, st.sessions[input.sessionId], input)
    ELSE ~r.success /\ r.error.code = "INVALID_INPUT"

\* C23: get-session on a live session returns as lastResponse the content
\* of the most recently appended assistant message, or no lastResponse when
\* the log has none; messageCount is the length of the log and the message
\* list is included only when includeMessages is true; on an unknown or an
\* expired id it returns INVALID_INPUT
C23_GetSessionTool ==
  [][\A input \in GetSessionInputs(KnownIds) :
       GetSessionTool(input) =>
         AnswersGetSession(getSessionTool(Store, now, input).ret, Store, now, input)]_vars

\* get-session answered about a session whose log has an assistant message
\* and ends with a later message of the caller
C23_ReadBehindUserMessage ==
  /\ last.op = "getSessionTool"
  /\ last.ret
  /\ last.id \in DOMAIN sessions
  /\ AssistantAt(sessions[last.id].messages) # {}
  /\ sessions[last.id].messages[Len(sessions[last.id].messages)].role = "user"

\* get-session refused an id whose session had expired
C23_ExpiredRefused ==
  /\ last.op = "getSessionTool"
  /\ ~last.ret
  /\ last.id \in last.expired

\* The ids createSession has given out
IssuedIds == {randomUUID(n) : n \in 1..(nextId - 1)}

\* A resume act call about id made in store st at time t is refused at once
ResumeRefused(r) ==
  /\ r.call.pc = "done"
  /\ ~r.call.ret.success
  /\ r.call.ret.error.code = "INVALID_INPUT"
  /\ r.call.backend = <<>>

\* Every reader of id in store st at time t finds no session
AbsentFor(st, t, id) ==
  /\ id \notin DOMAIN st.sessions
  /\ ~getSession(st, t, id).ret
  /\ \A input \in GetSessionInputs({id}) : ~getSessionTool(st, t, input).ret.success
  /\ \A input \in ResumeInputs({id}) : ResumeRefused(ActStart(st, t, NoId, input, NoError))

\* What get-session leaves of the live session it read
AfterRead(session, input) ==
  IF input.deleteAfterRead
    THEN AbsentFor(Store', now', session.id)
    ELSE /\ session.id \in DOMAIN sessions'
         /\ sessions'[session.id] = [session EXCEPT !.lastAccessedAt = now]

\* C24: get-session with deleteAfterRead=true on a live session returns
\* success with the data of the session as it was at the read and removes
\* the session, and a session that is out of the store stays out: every
\* later getSession, get-session or resume act on the id reports it absent;
\* with deleteAfterRead false the session stays in the store
C24_DeleteAfterRead ==
  [][/\ \A input \in GetSessionInputs(KnownIds) :
          (Live(input.sessionId) /\ GetSessionTool(input)) =>
            /\ last'.ret
            /\ DescribesSession(getSessionTool(Store, now, input).ret,
                                sessions[input.sessionId], input)
            /\ AfterRead(sessions[input.sessionId], input)
     /\ \A id \in IssuedIds \ DOMAIN sessions : AbsentFor(Store', now', id)]_vars

\* get-session has answered about a session that had not expired and has
\* taken it out of the store
C24_ReadAndRemoved ==
  /\ last.op = "getSessionTool"
  /\ last.ret
  /\ last.removed = {last.id}
  /\ last.expired = {}
  /\ last.id \in IssuedIds

\* A resume call was refused for an id that createSession once gave out and
\* that is out of the store
C24_ResumeAfterRemoval ==
  /\ last.op = "act"
  /\ last.call.input.sessionId \in IssuedIds \ DOMAIN sessions
  /\ ~last.call.ret.success
  /\ last.call.ret.error.code = "INVALID_INPUT"

-----------------------------------------------------------------------------
(* Properties of new tasks that name a tool set, under SpecCached *)

\* The act call that just began has started a session with the tools of
\* the tool set rec, and awaits the backend
StartedWith(rec) ==
  /\ last'.op = "await"
  /\ last'.call.isNewSession
  /\ last'.id \in DOMAIN sessions' \ DOMAIN sessions
  /\ sessions'[last'.id].tools = rec.tools
  /\ sessions'[last'.id].messages =
       <<Msg("system", buildToolSystemPrompt(rec.tools)), Msg("user", Task)>>

\* The act call that just began was refused for its tool set, before any
\* session or backend call
RefusedForToolSet ==
  /\ last'.op = "act"
  /\ ~last'.call.ret.success
  /\ last'.call.ret.error.code = "INVALID_INPUT"
  /\ last'.call.ret.message = "Tool set not found"
  /\ last'.call.backend = <<>>
  /\ sessions' = sessions

\* C25: a new-task act call that names a toolSetId uses the tools of that
\* registered tool set for the new session; when the toolSetId does not
\* resolve to a live tool set (unknown, or last read more than the TTL ago)
\* the call fails with INVALID_INPUT 'Tool set not found', creates no
\* session and makes no backend call
C25_ToolSetOfNewTask ==
  [][\A c \in CallIds : \A id \in KnownIds \cup {CustomToolSetId} :
       ActBegin(c, NewInputWithToolSet(ModelId, Task, id), NoError) =>
         IF id \in DOMAIN toolSets /\ now - toolSets[id].lastAccessedAt <= SESSION_TTL_MS
           THEN StartedWith(toolSets[id])
           ELSE RefusedForToolSet]_vars

\* A new task that named a registered tool set has started a session
\* without tools and without a system prompt, and the tool set has not
\* been read
C25_ToolSetLeftUnread ==
  /\ last.op = "await"
  /\ last.call.isNewSession
  /\ last.call.backend = <<"getModelInfo">>
  /\ last.id \in DOMAIN sessions
  /\ last.call.input.toolSetId \in DOMAIN toolSets
  /\ toolSets[last.call.input.toolSetId].lastAccessedAt < now
  /\ now - toolSets[last.call.input.toolSetId].lastAccessedAt <= SESSION_TTL_MS
  /\ sessions[last.id].tools = <<>>
  /\ sessions[last.id].messages = <<Msg("user", Task)>>

\* A new task that named a tool set that is not registered has started a
\* session and called the backend
C25_UnknownToolSetStarted ==
  /\ last.op = "await"
  /\ last.call.isNewSession
  /\ last.call.backend = <<"getModelInfo">>
  /\ last.id \in DOMAIN sessions
  /\ last.call.input.toolSetId \notin DOMAIN toolSets

-----------------------------------------------------------------------------
(* Properties of the response parser, under SpecParse *)

\* The step is the return of an act call whose respond resolved with a text
Answers == last'.op = "act" /\ calls[last'.slot].pc = "respond" /\ last'.thrown = NoError

\* r, what JSON.parse made of a text, is a value with a tool_calls array
HoldsToolCalls(r) == r.ok /\ GetProp(r.val, "tool_calls").t = "array"

\* ... and none of the elements of the array is null
HoldsCalls(r) ==
  /\ HoldsToolCalls(r)
  /\ \A i \in 1..Len(GetProp(r.val, "tool_calls").kids) :
       GetProp(r.val, "tool_calls").kids[i].t # "null"

\* The elements mapped one by one to {name, arguments}, in their order
MappedInOrder(elems) ==
  [isNull |-> FALSE,
   calls |-> [i \in 1..Len(elems) |-> [name |-> GetProp(elems[i], "name"),
                                       arguments |-> GetProp(elems[i], "arguments")]]]
CallsIn(r) == MappedInOrder(GetProp(r.val, "tool_calls").kids)

\* The fences of a text, and the text of its first fenced block: what
\* stands between the first two fences, less the tag json
FencesOf(text) == {i \in 1..Len(text) : text[i] = Fence}
Second(fences) == Min(fences \ {Min(fences)})
BlockText(text, open, close) ==
  Trim(SubSeq(text, IF text[open + 1] = "json" THEN open + 2 ELSE open + 1, close - 1))
FirstBlock(text, fences) ==
  IF Cardinality(fences) < 2 THEN [found |-> FALSE, group |-> <<>>]
  ELSE [found |-> TRUE, group |-> BlockText(text, Min(fences), Second(fences))]

\* The result of the parser for a trimmed text, given what JSON.parse makes
\* of the whole (direct) and the block looked at, by the rule of the claim:
\* holds(r) says that r carries tool calls
ByStrategy(direct, directHolds, block, inBlock, blockHolds) ==
  IF directHolds THEN CallsIn(direct)
  ELSE IF block.found /\ blockHolds THEN CallsIn(inBlock)
  ELSE Null

ClaimedResult(trimmed, block) ==
  ByStrategy(JSONParse(trimmed), HoldsToolCalls(JSONParse(trimmed)),
             block, JSONParse(block.group), HoldsToolCalls(JSONParse(block.group)))

Result(trimmed, block) ==
  ByStrategy(JSONParse(trimmed), HoldsCalls(JSONParse(trimmed)),
             block, JSONParse(block.group), HoldsCalls(JSONParse(block.group)))

\* C26 as claimed: a trimmed text that is JSON with a tool_calls array gives
\* that array mapped in order; else a fenced block that holds such JSON
\* gives its mapped array; else the result is 'no tool calls'
C26_ParserStrategies ==
  [][Answers =>
       parseToolCalls(last'.arg)
         = ClaimedResult(Trim(last'.arg), FirstBlock(Trim(last'.arg),
                                                     FencesOf(Trim(last'.arg))))]_vars

\* C26 (as the code has it): a trimmed text that is JSON with a tool_calls
\* array without a null in it gives that array mapped element by element to
\* {name, arguments} in the same order; else, if the first match of the
\* fenced-block pattern holds such JSON, its mapped array is the result;
\* else (an array with a null in it too) the result is 'no tool calls'
C26_ParserStrategiesNoNull ==
  [][Answers =>
       parseToolCalls(last'.arg) = Result(Trim(last'.arg), FenceMatch(Trim(last'.arg)))]_vars

\* A turn has ended as a final answer on a tool_calls array that holds null
C26_NullCallIsFinal ==
  /\ last.op = "act"
  /\ HoldsToolCalls(JSONParse(Trim(last.arg)))
  /\ ~HoldsCalls(JSONParse(Trim(last.arg)))
  /\ last.call.ret.success
  /\ last.call.ret.data.done

\* A turn has returned the two calls of a fenced block behind other words
C26_TwoCallsFromBlock ==
  /\ last.op = "act"
  /\ Head(last.arg) = "Here you go:"
  /\ last.call.ret.success
  /\ ~last.call.ret.data.done
  /\ Len(last.call.ret.data.toolCalls) = 2
  /\ last.call.ret.data.toolCalls[1].name.s = "get_weather"

\* What JSON.parse made of a text carries no tool calls: the text is
\* malformed, or it is JSON without a tool_calls field, or with a
\* tool_calls that is not an array
Malformed(r) == ~r.ok
WithoutField(r) == r.ok /\ GetProp(r.val, "tool_calls") = Undefined
NotAnArray(r) ==
  r.ok /\ GetProp(r.val, "tool_calls") # Undefined /\ GetProp(r.val, "tool_calls").t # "array"
WithoutCalls(r) == Malformed(r) \/ WithoutField(r) \/ NotAnArray(r)

\* Neither stage of the parser gets tool calls out of the trimmed text,
\* block being the fenced block the second stage looks at
NoStageHasCalls(trimmed, block) ==
  /\ WithoutCalls(JSONParse(trimmed))
  /\ block.found => WithoutCalls(JSONParse(block.group))

\* The call returned a final answer
FinalAnswer(ret) ==
  /\ ret.success
  /\ ret.data.done
  /\ "toolCalls" \notin DOMAIN ret.data
  /\ "error" \notin DOMAIN ret

\* C27: no model output makes a turn fail.  When respond resolves, act
\* returns success; and a text that is malformed JSON at either parsing
\* stage, JSON without a tool_calls field, or JSON with a tool_calls that
\* is not an array, is a final answer: success, done=true, no toolCalls
C27_OutputNeverFailsTurn ==
  [][Answers =>
       /\ last'.call.ret.success
       /\ NoStageHasCalls(Trim(last'.arg), FenceMatch(Trim(last'.arg)))
            => FinalAnswer(last'.call.ret)]_vars

\* A turn ended as a final answer on a fenced block in braces that is not
\* JSON
C27_MalformedBlockIsFinal ==
  /\ last.op = "act"
  /\ Malformed(JSONParse(Trim(last.arg)))
  /\ FenceMatch(Trim(last.arg)).found
  /\ Malformed(JSONParse(FenceMatch(Trim(last.arg)).group))
  /\ FinalAnswer(last.call.ret)

\* A turn ended as a final answer on JSON whose tool_calls is a string
C27_NotArrayIsFinal ==
  /\ last.op = "act"
  /\ NotAnArray(JSONParse(Trim(last.arg)))
  /\ FinalAnswer(last.call.ret)

\* A turn ended as a final answer on JSON without tool_calls
C27_WithoutFieldIsFinal ==
  /\ last.op = "act"
  /\ WithoutField(JSONParse(Trim(last.arg)))
  /\ FinalAnswer(last.call.ret)

\* The text of the second fenced block: what stands between the third and
\* the fourth fence
After(fences) == fences \ {Min(fences)}
SecondBlock(text, fences) ==
  IF Cardinality(fences) < 4 THEN [found |-> FALSE, group |-> <<>>]
  ELSE [found |-> TRUE,
        group |-> BlockText(text, Min(After(After(fences))),
                            Min(After(After(After(fences)))))]

\* Only white space stands between the first and the second block, and
\* nothing before the first or behind the second
TwoBlocksAlone(text, fences) ==
  /\ Cardinality(fences) = 4
  /\ Min(fences) = 1
  /\ Min(After(After(After(fences)))) = Len(text)
  /\ SkipWs(text, Second(fences) + 1) = Min(After(After(fences)))

BeginsWithBrace(text) == text # <<>> /\ Head(text) = "{"

\* C28 as claimed: when the text holds several fenced blocks and the first
\* is not a JSON object with a tool_calls array, the result is 'no tool
\* calls', whatever a later block holds
C28_FirstBlockOnly ==
  [][(/\ Answers
      /\ Cardinality(FencesOf(Trim(last'.arg))) >= 4
      /\ ~HoldsToolCalls(JSONParse(FirstBlock(Trim(last'.arg),
                                              FencesOf(Trim(last'.arg))).group)))
       => parseToolCalls(last'.arg).isNull]_vars

\* What the parser returns for a trimmed text of several fenced blocks:
\* first and second are what JSON.parse makes of the texts of the first two
\* blocks, firstText the text of the first, and match the leftmost match of
\* the pattern
OfSeveralBlocks(result, trimmed, fences, firstText, first, second, match) ==
  /\ (match.found /\ ~HoldsCalls(JSONParse(match.group))) => result.isNull
  /\ (first.ok /\ first.val.t = "object" /\ ~HoldsCalls(first)) => result.isNull
  /\ (/\ TwoBlocksAlone(trimmed, fences)
      /\ ~BeginsWithBrace(firstText)
      /\ HoldsCalls(second)) => result = CallsIn(second)

SeveralBlocks(trimmed, fences) ==
  Cardinality(fences) >= 4 =>
    \A firstText \in {FirstBlock(trimmed, fences).group} :
      \A first \in {JSONParse(firstText)} :
        \A second \in {JSONParse(SecondBlock(trimmed, fences).group)} :
          \A match \in {FenceMatch(trimmed)} :
            \A result \in {parseToolCalls(trimmed)} :
              OfSeveralBlocks(result, trimmed, fences, firstText, first, second, match)

\* C28 (as the code has it): of a text that is not JSON itself the parser
\* considers only the leftmost match of the fenced-block pattern, which is
\* not always the first fenced block.  When the text that match captures is
\* not JSON with a tool_calls array, the result is 'no tool calls' even if a
\* later block holds valid tool calls: so it is when the first block holds
\* a complete JSON object.  A first block whose text does not begin with a
\* brace is passed over, and the calls of a second block that follows it
\* after white space are returned
C28_FirstMatchOnly ==
  [][Answers =>
       \A trimmed \in {Trim(last'.arg)} : SeveralBlocks(trimmed, FencesOf(trimmed))]_vars

\* A turn returned the call of the second fenced block, the first block
\* holding plain words
C28_LaterBlockUsed ==
  /\ last.op = "act"
  /\ Cardinality(FencesOf(last.arg)) = 4
  /\ FirstBlock(last.arg, FencesOf(last.arg)).group = <<"hello">>
  /\ last.call.ret.success
  /\ ~last.call.ret.data.done
  /\ last.call.ret.data.toolCalls[1].name.s = "get_weather"

\* A turn ended as a final answer on a first block that holds JSON without
\* tool_calls, the second block holding a tool call
C28_LaterBlockIgnored ==
  /\ last.op = "act"
  /\ Cardinality(FencesOf(last.arg)) = 4
  /\ FirstBlock(last.arg, FencesOf(last.arg)).group = OtherJsonAnswer
  /\ SecondBlock(last.arg, FencesOf(last.arg)).group = ToolCallAnswer
  /\ last.call.ret.success
  /\ last.call.ret.data.done

-----------------------------------------------------------------------------
(* Properties of two resume calls at the same time, under SpecResume *)

\* The log of session s after the step is the log before with message
\* added at its end
Appended(s, message) ==
  /\ s \in DOMAIN sessions'
  /\ sessions'[s].messages = Append(sessions[s].messages, message)

\* A resume call on a live session is let in, whatever other calls hold the
\* session: its tool results, if it brings any, go to the end of the log
LetIn(input) ==
  /\ last'.op = "await"
  /\ last'.call.sid = input.sessionId
  /\ IF input.toolResults # <<>>
       THEN Appended(input.sessionId, Msg("user", formatToolResults(input.toolResults)))
       ELSE sessions'[input.sessionId].messages = sessions[input.sessionId].messages

\* C29: when two resume calls for one session id are in flight at the same
\* time the store does not prevent it, and the appends go to the log in the
\* order in which they are made: a resume call on a live session is always
\* let in and appends its user message at once, and when respond settles
\* for a call its assistant message goes to the end of the log as it then
\* stands.  So the user messages of both callers can precede both
\* assistant messages, and the assistant messages stand in the order in
\* which the backend calls completed, not in that of the act calls
C29_AppendsInCompletionOrder ==
  [][/\ \A c \in TwoCallIds : \A input \in CallerInputs(DOMAIN sessions) :
          (Live(input.sessionId) /\ ActBegin(c, input, NoError)) => LetIn(input)
     /\ (Answers /\ Live(last'.call.sid)) =>
          Appended(last'.call.sid, Msg("assistant", Trim(last'.arg)))]_vars

\* The other call, which holds the same session and still awaits respond
OtherCalls == {c \in DOMAIN calls : calls[c].pc = "respond" /\ calls[c].sid = last.id}

\* The user message of a caller with tool results
UserMessage(results) == Msg("user", formatToolResults(results))

\* The call issued second has completed first: the log ends with the user
\* message of the call that still awaits respond, that of the call that
\* has returned, and the assistant message of the latter
C29_SecondCallAnsweredFirst ==
  /\ last.op = "act"
  /\ last.call.ret.success
  /\ last.call.input.toolResults = NoonResult
  /\ \E c \in OtherCalls :
       /\ calls[c].input.toolResults = SunnyResult
       /\ Len(sessions[last.id].messages) = 6
       /\ SubSeq(sessions[last.id].messages, 4, 6)
            = <<UserMessage(SunnyResult), UserMessage(NoonResult),
                Msg("assistant", Trim(last.arg))>>

\* Both calls have returned: the user messages of both precede both
\* assistant messages, and the call issued first was answered last
C29_BothUsersThenBothAssistants ==
  /\ last.op = "act"
  /\ last.call.input.toolResults = SunnyResult
  /\ Len(sessions[last.id].messages) = 7
  /\ SubSeq(sessions[last.id].messages, 4, 7)
       = <<UserMessage(SunnyResult), UserMessage(NoonResult),
           Msg("assistant", Trim(ToolCallAnswer)), Msg("assistant", Trim(PlainAnswer))>>
  /\ last.arg = PlainAnswer

-----------------------------------------------------------------------------
(* The order of the steps of one act call, under Spec *)

\* The message the caller of input brings: the task of a new call, the tool
\* results of a resume call; <<>> when a resume call brings none
CallerMessage(input) ==
  IF input.sessionId = NoId THEN <<Msg("user", input.task)>>
  ELSE IF input.toolResults # <<>>
    THEN <<Msg("user", formatToolResults(input.toolResults))>>
  ELSE <<>>

\* messages ends with the messages of tail
EndsWith(messages, tail) ==
  /\ Len(messages) >= Len(tail)
  /\ SubSeq(messages, Len(messages) - Len(tail) + 1, Len(messages)) = tail

\* Every message of tail has a place in messages
Holds(messages, tail) == \A i \in 1..Len(tail) : \E k \in 1..Len(messages) : messages[k] = tail[i]

\* First: a call that gets its session appends the message of its caller
\* and asks for the model, before any other backend call
CallerMessageFirst ==
  (Begins /\ last'.op = "await") =>
    /\ last'.call.backend = <<"getModelInfo">>
    /\ last'.call.sid \in DOMAIN sessions'
    /\ EndsWith(sessions'[last'.call.sid].messages, CallerMessage(last'.call.input))
    /\ last'.call.input.sessionId # NoId =>
         sessions'[last'.call.sid].messages
           = sessions[last'.call.sid].messages \o CallerMessage(last'.call.input)

\* Then: once the model is found respond is called, once, with the whole
\* log of the session the call holds, the message of the caller in it; the
\* step changes no session
RespondGetsLog ==
  \A c \in DOMAIN calls :
    (calls[c].pc = "getModelInfo" /\ calls'[c].pc = "respond") =>
      /\ calls'[c].backend = <<"getModelInfo", "respond">>
      /\ calls'[c].sent = SessionRef(Store, calls[c].sid).messages
      /\ Holds(calls'[c].sent, CallerMessage(calls[c].input))
      /\ sessions' = sessions

\* While a call awaits respond it takes no step: what other steps do leaves
\* its locals as they are
IdleWhileAwaiting ==
  \A c \in DOMAIN calls :
    (calls[c].pc = "respond" /\ last'.slot # c) => calls'[c] = calls[c]

\* No respond call is made by a call that fails validation or finds the
\* model not loaded, and no call makes more than one
NoRespondOnRefusal ==
  /\ (Begins /\ last'.op = "act") => last'.call.backend = <<>>
  /\ (/\ last'.op = "act"
      /\ ~last'.call.ret.success
      /\ last'.call.ret.error.message = "Model not loaded")
       => last'.call.backend = <<"getModelInfo">>
  /\ last'.op = "act" =>
       last'.call.backend \in {<<>>, <<"getModelInfo">>, <<"getModelInfo", "respond">>}

\* Last: when respond settles the assistant message goes to the end of the
\* log of the session
AssistantLast == Answers => Appended(last'.call.sid, Msg("assistant", Trim(last'.arg)))

\* C30: within one act call the order of the steps is fixed: the message of
\* the caller (task or tool results) is appended, then the model is looked
\* up, then respond is called exactly once with the whole ordered log, that
\* message in it, then the assistant message is appended; the call changes
\* no session between its call of respond and the completion of it, and
\* calls no respond on a validation failure or when the model is not loaded
C30_StepOrder ==
  [][/\ CallerMessageFirst
     /\ RespondGetsLog
     /\ IdleWhileAwaiting
     /\ NoRespondOnRefusal
     /\ AssistantLast]_vars

\* The same, for the calls whose session is in the store and has not expired
\* when respond settles
C30_StepOrderOfStoredSession ==
  [][/\ CallerMessageFirst
     /\ RespondGetsLog
     /\ IdleWhileAwaiting
     /\ NoRespondOnRefusal
     /\ Live(last'.call.sid) => AssistantLast]_vars

\* A resume call with tool results has run through all its steps
C30_ResumeRanThrough ==
  /\ last.op = "act"
  /\ last.call.ret.success
  /\ last.call.input.toolResults # <<>>
  /\ last.call.backend = <<"getModelInfo", "respond">>
  /\ last.id \in DOMAIN sessions
  /\ EndsWith(sessions[last.id].messages,
              CallerMessage(last.call.input) \o <<Msg("assistant", Trim(last.arg))>>)
  /\ last.call.sent = SubSeq(sessions[last.id].messages, 1,
                             Len(sessions[last.id].messages) - 1)

-----------------------------------------------------------------------------
(* The tool results of a resume call, under SpecResume *)

\* The lines [name]: result of the results, in their order, with a line
\* feed between two of them, as one string
RECURSIVE ResultLines(_)
ResultLines(results) ==
  IF results = <<>> THEN ""
  ELSE "[" \o Head(results).name \o "]: " \o Head(results).result
         \o (IF Tail(results) = <<>> THEN "" ELSE "\n" \o ResultLines(Tail(results)))

\* The step adds to the log of session s the messages of added, and changes
\* no other log
Adds(s, added) ==
  /\ s \in DOMAIN sessions'
  /\ sessions'[s].messages = sessions[s].messages \o added
  /\ \A j \in DOMAIN sessions \ {s} :
       j \in DOMAIN sessions' /\ sessions'[j].messages = sessions[j].messages

\* What a resume call with input adds when it is made: one user message
\* that spells the lines of its results, or nothing
AddsResults(input) ==
  /\ last'.op = "await"
  /\ last'.call.backend = <<"getModelInfo">>
  /\ IF Len(input.toolResults) > 0
       THEN \E m \in {sessions'[input.sessionId].messages[
                        Len(sessions'[input.sessionId].messages)]} :
              /\ Adds(input.sessionId, <<m>>)
              /\ m.role = "user"
              /\ Concat(m.content) = ResultLines(input.toolResults)
       ELSE Adds(input.sessionId, <<>>)

\* C31: a resume act call with a non-empty toolResults list appends exactly
\* one user message before the backend call, whose content is one line per
\* result in input order, each of the form [name]: result; a resume call
\* with toolResults absent or empty appends no user message, so the only
\* message it adds is the assistant reply: its later steps add nothing when
\* getModelInfo settles and the assistant message when respond settles, and
\* the log handed to respond ends with the user message if there is one
C31_ToolResultsMessage ==
  [][/\ \A c \in TwoCallIds : \A input \in CallerInputs(DOMAIN sessions) :
          (Live(input.sessionId) /\ ActBegin(c, input, NoError)) => AddsResults(input)
     /\ \A c \in TwoCallIds :
          /\ ActModelInfo(c, TRUE, NoError) =>
               /\ Adds(calls[c].sid, <<>>)
               /\ calls[c].input.toolResults # <<>> =>
                    \E k \in 1..Len(calls'[c].sent) :
                      /\ calls'[c].sent[k].role = "user"
                      /\ Concat(calls'[c].sent[k].content)
                           = ResultLines(calls[c].input.toolResults)
          /\ \A content \in Responses :
               ActRespond(c, content, NoError) =>
                 Adds(calls[c].sid, <<Msg("assistant", Trim(content))>>)]_vars

\* A resume call that brought the results of two tools has returned: the log
\* ends with one user message of two lines and the assistant reply
C31_TwoLinesAppended ==
  /\ last.op = "act"
  /\ last.call.ret.success
  /\ last.call.input.toolResults = TwoResults
  /\ Len(sessions[last.id].messages) = 5
  /\ sessions[last.id].messages[4].role = "user"
  /\ Concat(sessions[last.id].messages[4].content)
       = "[get_weather]: sunny\n[get_time]: noon"
  /\ sessions[last.id].messages[5] = Msg("assistant", Trim(last.arg))

\* A resume call that brought no results has returned: the log of the first
\* turn has the assistant reply behind it and nothing else
C31_NoResultsNoUserMessage ==
  /\ last.op = "act"
  /\ last.call.ret.success
  /\ last.call.input.toolResults = <<>>
  /\ sessions[last.id].messages
       = Append(FirstTurn.sessions[last.id].messages, Msg("assistant", Trim(last.arg)))

-----------------------------------------------------------------------------
(* What is set once at the creation of a session, under Spec *)

\* The fields of a session that are set at its creation
Created(session) ==
  [id |-> session.id, modelId |-> session.modelId, tools |-> session.tools,
   createdAt |-> session.createdAt]

\* The system message of a log: its messages of role system, with their places
SystemMessages(messages) ==
  {<<i, messages[i]>> : i \in {k \in 1..Len(messages) : messages[k].role = "system"}}

\* No step changes id, modelId, tools or createdAt of a session that is
\* stored before and after it, or of a session object a call holds; a
\* session that enters the store is under its own id, created now
FieldsKept ==
  /\ \A j \in DOMAIN sessions \cap DOMAIN sessions' :
       /\ Created(sessions'[j]) = Created(sessions[j])
       /\ sessions[j].id = j
  /\ \A j \in DOMAIN sessions \cap DOMAIN detached' :
       Created(detached'[j]) = Created(sessions[j])
  /\ \A j \in DOMAIN detached \cap DOMAIN detached' :
       Created(detached'[j]) = Created(detached[j])
  /\ \A j \in DOMAIN sessions' \ DOMAIN sessions :
       /\ sessions'[j].id = j
       /\ sessions'[j].createdAt = now
       /\ j \notin DOMAIN detached

\* A resume call with input on a live session is let in and asks for the
\* model of the session; the tools and the system message of the session
\* stay, and what it appends is its tool results and nothing else of input
ResumesAsCreated(input) ==
  /\ last'.op = "await"
  /\ last'.call.handle = sessions[input.sessionId].modelId
  /\ sessions'[input.sessionId]
       = [sessions[input.sessionId] EXCEPT
            !.lastAccessedAt = now,
            !.messages = @ \o (IF input.toolResults # <<>>
                                 THEN <<Msg("user", formatToolResults(input.toolResults))>>
                                 ELSE <<>>)]
  /\ sessions'[input.sessionId].tools = sessions[input.sessionId].tools
  /\ SystemMessages(sessions'[input.sessionId].messages)
       = SystemMessages(sessions[input.sessionId].messages)

\* C32: for every session, id, modelId, tools and createdAt never change
\* after creation under any sequence of operations; in particular a resume
\* act call that also supplies identifier, task or tools ignores them,
\* leaves the session's tools and system message as they were, and
\* addresses the backend by the session's own modelId
C32_SetOnceAtCreation ==
  [][/\ FieldsKept
     /\ \A c \in CallIds :
          \A input \in ResumeInputs(KnownIds) \cup OverridingInputs(KnownIds) :
            (Live(input.sessionId) /\ ActBegin(c, input, NoError)) => ResumesAsCreated(input)
     /\ \A c \in DOMAIN calls :
          calls[c].pc # "idle" /\ calls'[c].pc # "idle" => calls'[c].handle = calls[c].handle
     /\ (last'.op = "act" /\ last'.call.backend # <<>>) =>
          last'.call.handle = SessionRef(Store, last'.call.sid).modelId]_vars

\* A session started with a tool was resumed by a call that named another
\* model, a task and another tool, and the call has returned: the backend
\* was asked for the model of the session, whose tools and system message
\* are those of its creation
C32_ResumedWithOtherModel ==
  /\ last.op = "act"
  /\ last.call.ret.success
  /\ last.call.input \in OverridingInputs({last.id})
  /\ last.call.handle = ModelId
  /\ last.call.handle # last.call.input.identifier
  /\ sessions[last.id].modelId = ModelId
  /\ sessions[last.id].tools = <<GetWeather>>
  /\ sessions[last.id].messages[1] = Msg("system", buildToolSystemPrompt(<<GetWeather>>))
  /\ \A k \in 1..Len(sessions[last.id].messages) :
       sessions[last.id].messages[k].content # OtherTask

-----------------------------------------------------------------------------
(* The message log, under Spec *)

\* The log earlier is the beginning of the log later
IsPrefix(earlier, later) ==
  Len(earlier) <= Len(later) /\ SubSeq(later, 1, Len(earlier)) = earlier

\* The places of the system messages of a log are none, or the first alone
SystemFirst(messages) ==
  {k \in 1..Len(messages) : messages[k].role = "system"} \subseteq {1}

\* C33: the message log of a session is append-only: between any two states
\* in which the session exists, the earlier log is a prefix of the later
\* log; no operation reorders, edits or removes a single message, and a
\* system message, when present, is always at index 0.  Step by step: the
\* log of a session stored before and after a step, or held by a call in
\* flight, begins with the log it had; a session that enters the store has
\* an id never given out before, so a session that is stored in two states
\* is stored in all states between them
C33_AppendOnlyLog ==
  [][/\ \A j \in DOMAIN sessions \cap DOMAIN sessions' :
          IsPrefix(sessions[j].messages, sessions'[j].messages)
     /\ \A j \in DOMAIN sessions \cap DOMAIN detached' :
          detached'[j].messages = sessions[j].messages
     /\ \A j \in DOMAIN detached \cap DOMAIN detached' :
          detached'[j].messages = detached[j].messages
     /\ \A j \in DOMAIN sessions' \ DOMAIN sessions : j = randomUUID(nextId)
     /\ nextId' >= nextId
     /\ \A j \in DOMAIN sessions' : SystemFirst(sessions'[j].messages)]_vars

\* Two turns have run on a session started with a tool: the log holds the
\* system message first, and each turn's messages behind those of the turn
\* before
C33_TwoTurnsLogged ==
  /\ last.op = "act"
  /\ last.call.ret.success
  /\ last.id \in DOMAIN sessions
  /\ Roles(sessions[last.id].messages) = <<"system", "user", "assistant", "user", "assistant">>
  /\ sessions[last.id].messages[2] = Msg("user", Task)
  /\ sessions[last.id].messages[4] = Msg("user", formatToolResults(SunnyResult))
  /\ sessions[last.id].messages[5] = Msg("assistant", Trim(last.arg))

-----------------------------------------------------------------------------
(* A backend that does not answer, under SpecHung *)

\* C34: if the backend call of an act turn does not complete, the act call
\* still terminates: on timeout it returns a failure result through the
\* same failure path as a backend exception, and a session created in that
\* call is removed, so a hung backend never leaves an orphaned new session.
\* Every call that awaits respond returns in the end, whether or not
\* respond ever settles
C34_HungBackendTimesOut ==
  \A c \in CallIds : (calls[c].pc = "respond") ~> (calls[c].pc = "idle")

\* A call for a new task still awaits respond more than the TTL after it
\* began: it has not returned, and the session it created is stored
C34_NewSessionLeftBehind ==
  \E c \in CallIds :
    /\ calls[c].pc = "respond"
    /\ calls[c].isNewSession
    /\ calls[c].sid \in DOMAIN sessions
    /\ now - sessions[calls[c].sid].lastAccessedAt > SESSION_TTL_MS

-----------------------------------------------------------------------------
(* The time left that getSessionInfo reports, under SpecInfo *)

\* getSessionInfo found the session: the time left it reports is the TTL
\* less what the clock moved inside the call, the record is accessed as of
\* the call, and a lookup a whole TTL after the call still finds it
ReportsFullTTL(id, d) ==
  /\ last'.ret
  /\ 0 < last'.count
  /\ last'.count <= 30 * 60 * 1000
  /\ last'.count = 30 * 60 * 1000 - d
  /\ d = 0 => last'.count = getSessionTTL
  /\ id \in DOMAIN sessions'
  /\ sessions'[id] = [sessions[id] EXCEPT !.lastAccessedAt = now]
  /\ getSession(Store', now + SESSION_TTL_MS, id).ret

\* C35: getSessionInfo computes ttlRemainingMs after refreshing the access
\* time: for every live session the reported value satisfies
\* 0 < ttlRemainingMs <= TTL and equals TTL when the clock does not advance
\* inside the call, whatever the time elapsed since the previous access;
\* the call itself counts as an access and restarts the TTL countdown.  Of
\* a session that is not stored or has expired it reports nothing
C35_TtlRemainingAfterRefresh ==
  [][\A id \in KnownIds : \A d \in InCallDelays :
       GetSessionInfo(id, d) =>
         IF id \in DOMAIN sessions /\ now - sessions[id].lastAccessedAt <= SESSION_TTL_MS
           THEN ReportsFullTTL(id, d)
           ELSE ~last'.ret /\ id \notin DOMAIN sessions']_vars

\* getSessionInfo has just reported the whole TTL of a session that had
\* not been accessed for exactly the TTL
C35_FullTTLAtTheLastMoment ==
  /\ last.op = "getSessionInfo"
  /\ last.ret
  /\ last.count = SESSION_TTL_MS
  /\ last.id \in DOMAIN sessions
  /\ sessions[last.id].lastAccessedAt = sessions[last.id].createdAt + SESSION_TTL_MS
  /\ now = sessions[last.id].lastAccessedAt

\* The clock moved inside the call: the time left is less than the TTL by that
C35_ClockMovedInsideCall ==
  /\ last.op = "getSessionInfo"
  /\ last.ret
  /\ last.count = SESSION_TTL_MS - 7
  /\ now = sessions[last.id].lastAccessedAt + 7
  /\ sessions[last.id].lastAccessedAt > sessions[last.id].createdAt + CLEANUP_INTERVAL_MS

-----------------------------------------------------------------------------
(* What listSessions and getSessionCount report, under SpecSweep *)

\* The stored sessions whose TTL has not passed
LiveSessions == {j \in DOMAIN sessions : now - sessions[j].lastAccessedAt <= SESSION_TTL_MS}

\* The records that are in the Map once the call has swept, if it sweeps:
\* all of them when the last sweep was 5 minutes ago or less
PresentAfterSweep ==
  IF now - lastCleanup > 5 * 60 * 1000 THEN LiveSessions ELSE DOMAIN sessions

\* C36: listSessions and getSessionCount report exactly the physically
\* present session records after their opportunistic sweep; when the last
\* sweep was 5 minutes or less ago they can include a session whose TTL has
\* passed, that is an id for which getSession returns absent, so the count
\* can exceed the number of live sessions but is never below it
C36_ListAndCountArePhysical ==
  [][last'.op \in {"listSessions", "getSessionCount"} =>
       /\ DOMAIN sessions' = PresentAfterSweep
       /\ last'.op = "listSessions" => last'.keys = DOMAIN sessions'
       /\ last'.count = Cardinality(DOMAIN sessions')
       /\ last'.count >= Cardinality(LiveSessions)
       /\ last'.count > Cardinality(LiveSessions) => now - lastCleanup <= CLEANUP_INTERVAL_MS
       /\ \A j \in DOMAIN sessions' :
            getSession(Store', now', j).ret = (j \in LiveSessions)]_vars

\* getSessionCount has just counted a session whose TTL has passed, less
\* than the interval after a sweep: getSession does not return it
C36_CountedExpired ==
  /\ last.op = "getSessionCount"
  /\ last.count = 1
  /\ LiveSessions = {}
  /\ now - lastCleanup <= CLEANUP_INTERVAL_MS
  /\ lastCleanup > 0
  /\ \A j \in DOMAIN sessions : ~getSession(Store, now, j).ret

\* listSessions has just listed a session whose TTL has passed beside one
\* that is live
C36_ListedExpired ==
  /\ last.op = "listSessions"
  /\ last.keys = DOMAIN sessions
  /\ LiveSessions # {}
  /\ LiveSessions # DOMAIN sessions

-----------------------------------------------------------------------------
(* A resume call that fails after it appended its tool results, under Spec *)

\* The call that has just returned resumed a session with tool results and
\* failed after it got the session, which is still stored and not expired
ResumeFailedAfterAppend ==
  /\ last'.op = "act"
  /\ ~last'.call.ret.success
  /\ ~last'.call.isNewSession
  /\ last'.call.sid # NoId
  /\ last'.call.input.toolResults # <<>>
  /\ last'.call.sid \in DOMAIN sessions'
  /\ now' - sessions'[last'.call.sid].lastAccessedAt <= SESSION_TTL_MS

\* again is the same resume made once more, with a backend that answers:
\* respond is handed a log that ends with the message twice, and the log
\* of the session keeps both before the answer
SeenTwice(again, s, message) ==
  /\ again.call.ret.success
  /\ EndsWith(again.call.sent, <<message, message>>)
  /\ EndsWith(again.st.sessions[s].messages,
              <<message, message, Msg("assistant", Trim(PlainAnswer))>>)

\* C37: a resume act call that appends a tool-result user message and then
\* fails in the backend phase does not roll the append back: the session
\* log keeps that message, so retrying the same resume appends the same
\* tool-result message a second time and the backend then sees it twice
C37_FailedResumeKeepsAppend ==
  [][ResumeFailedAfterAppend =>
       /\ EndsWith(sessions'[last'.call.sid].messages,
                   <<UserMessage(last'.call.input.toolResults)>>)
       /\ SeenTwice(act(Store', now', randomUUID(nextId'), last'.call.input,
                        Answering(PlainAnswer)),
                    last'.call.sid, UserMessage(last'.call.input.toolResults))]_vars

\* A resume with tool results failed and was made again: the call awaits
\* respond, which it handed a log that ends with the tool results twice
C37_RetrySentTwice ==
  \E c \in DOMAIN calls :
    /\ calls[c].pc = "respond"
    /\ calls[c].input.toolResults = SunnyResult
    /\ EndsWith(calls[c].sent, <<UserMessage(SunnyResult), UserMessage(SunnyResult)>>)
    /\ calls[c].sid \in DOMAIN sessions
    /\ sessions[calls[c].sid].messages = calls[c].sent

-----------------------------------------------------------------------------
(* The ways out of the session store, under SpecLeave *)

\* The operations that look a session up or sweep: they call getSession,
\* maybeCleanup or cleanupExpiredSessions
LookupsAndSweeps ==
  {"getSession", "getSessionCount", "cleanupExpiredSessions", "getSessionTool", "act", "await"}

\* The step is an explicit deletion of session j: deleteSession, the
\* delete-session tool, or get-session with deleteAfterRead
DeletesExplicitly(j) ==
  \/ last'.op \in {"deleteSession", "deleteSessionTool"} /\ last'.id = j /\ last'.ret
  \/ \E input \in GetSessionInputs({j}) : input.deleteAfterRead /\ GetSessionTool(input)

\* The step is a lookup or a sweep at a time when the TTL of j has passed:
\* a lookup of j itself (by a store function or a tool about j, or by an
\* act call that names j), cleanupExpiredSessions, or the sweep that runs
\* more than the interval after the last one
Expires(j) ==
  /\ now - sessions[j].lastAccessedAt > 30 * 60 * 1000
  /\ last'.op \in LookupsAndSweeps
  /\ \/ last'.id = j
     \/ last'.call.input.sessionId = j
     \/ last'.op = "cleanupExpiredSessions"
     \/ now - lastCleanup > 5 * 60 * 1000

\* The step is the failure of the act call that created j
FailureCleanup(j) ==
  /\ last'.op = "act"
  /\ last'.call.sid = j
  /\ last'.call.isNewSession
  /\ ~last'.call.ret.success

\* C38: a session leaves the store only through explicit deletion
\* (deleteSession, the delete-session tool, get-session with
\* deleteAfterRead), clearAllSessions, expiry (a lookup or a sweep at a time
\* when now - lastAccessedAt > TTL), or the failure cleanup of the act call
\* that created it; an act call never deletes a session it did not create,
\* and no lookup or sweep removes a session with now - lastAccessedAt <= TTL
C38_WaysOutOfTheStore ==
  [][/\ \A j \in DOMAIN sessions \ DOMAIN sessions' :
          \/ DeletesExplicitly(j)
          \/ last'.op = "clearAllSessions"
          \/ Expires(j)
          \/ FailureCleanup(j)
     /\ last'.op \in {"act", "await"} =>
          \A j \in DOMAIN sessions \ DOMAIN sessions' : Expires(j) \/ FailureCleanup(j)
     /\ last'.op \in {"getSession", "getSessionCount", "cleanupExpiredSessions"} =>
          \A j \in DOMAIN sessions \ DOMAIN sessions' :
            now - sessions[j].lastAccessedAt > SESSION_TTL_MS
     /\ last'.op = "advanceClock" => sessions' = sessions]_vars

\* An act call that created a session has just failed beside the session
\* of an earlier turn: its own session has left the store and the other
\* has not
C38_FailedCallRemovedItsOwnOnly ==
  /\ last.op = "act"
  /\ last.call.isNewSession
  /\ ~last.call.ret.success
  /\ last.call.backend # <<>>
  /\ last.removed = {last.call.sid}
  /\ \E j \in DOMAIN sessions :
       sessions[j].messages[Len(sessions[j].messages)].role = "assistant"

\* clearAllSessions has just removed a session that had not expired
C38_ClearedLive ==
  /\ last.op = "clearAllSessions"
  /\ last.removed # {}
  /\ last.expired = {}
  /\ DOMAIN sessions = {}

\* A sweep has just removed an expired session that the call did not name
C38_SweptByCount ==
  /\ last.op = "getSessionCount"
  /\ last.removed # {}
  /\ last.removed = last.expired

-----------------------------------------------------------------------------
(* The tool-set functions and the session functions keep apart, under SpecBoth *)

ToolSetOps == {"registerToolSet", "getToolSet", "deleteToolSet", "listToolSets", "getToolSetCount"}

\* The step deletes the tool set k: deleteToolSet(k), or clearAllToolSets
DeletesToolSet(k) ==
  \/ last'.op = "deleteToolSet" /\ last'.id = k
  \/ last'.op = "clearAllToolSets"

\* The session functions that sweep first when the interval has passed
SweepingSessionOps == {"createSession", "getSessionCount"}

\* The tool sets whose TTL has passed
StaleToolSets == {k \in DOMAIN toolSets : now - toolSets[k].lastAccessedAt > SESSION_TTL_MS}

\* The step is one that can take the expired tool set k out of the store:
\* getToolSet(k), a deletion of k, cleanupExpiredSessions, or a session
\* function whose interval sweep is due
TakesOut(k) ==
  \/ last'.op = "getToolSet" /\ last'.id = k
  \/ DeletesToolSet(k)
  \/ last'.op = "cleanupExpiredSessions"
  \/ last'.op \in SweepingSessionOps /\ now - lastCleanup > CLEANUP_INTERVAL_MS

\* C39: the tool-set operations (registerToolSet, getToolSet, deleteToolSet,
\* listToolSets, getToolSetCount) never trigger the interval sweep, never
\* change the last-sweep time and never touch session records; an expired
\* tool set stays listed and counted until getToolSet is called on its id,
\* it is deleted or overwritten, or a session operation or
\* cleanupExpiredSessions sweeps it; and deleteSession and clearAllSessions
\* never remove a tool set.  A tool set is deleted by deleteToolSet on its
\* id or by clearAllToolSets, which leaves sessions and the last-sweep time
\* alone as well
C39_ToolSetOpsKeepApart ==
  [][/\ last'.op \in ToolSetOps =>
          /\ sessions' = sessions
          /\ lastCleanup' = lastCleanup
          /\ \A k \in DOMAIN toolSets \ {last'.id} :
               k \in DOMAIN toolSets' /\ toolSets'[k] = toolSets[k]
     /\ last'.op = "listToolSets" => last'.keys = DOMAIN toolSets /\ toolSets' = toolSets
     /\ last'.op = "getToolSetCount" =>
          last'.count = Cardinality(DOMAIN toolSets) /\ toolSets' = toolSets
     /\ \A k \in StaleToolSets :
          \/ k \in DOMAIN toolSets' /\ toolSets'[k] = toolSets[k]
          \/ TakesOut(k) /\ k \notin DOMAIN toolSets'
          \/ last'.op = "registerToolSet" /\ last'.id = k /\ k \in DOMAIN toolSets'
     /\ last'.op = "clearAllToolSets" =>
          /\ sessions' = sessions
          /\ lastCleanup' = lastCleanup
          /\ DOMAIN toolSets' = {}
     /\ last'.op \in {"deleteSession", "clearAllSessions"} =>
          toolSets' = toolSets /\ lastCleanup' = lastCleanup]_vars

\* getToolSetCount has just counted a tool set whose TTL has passed, more
\* than the interval after the last sweep, beside an expired session: both
\* records are still stored
C39_CountedExpiredToolSet ==
  /\ last.op = "getToolSetCount"
  /\ last.count = 1
  /\ StaleToolSets = DOMAIN toolSets
  /\ now - lastCleanup > CLEANUP_INTERVAL_MS
  /\ \E j \in DOMAIN sessions : now - sessions[j].lastAccessedAt > SESSION_TTL_MS

\* clearAllSessions has just removed a session and left the tool set
C39_ClearedBesideToolSet ==
  /\ last.op = "clearAllSessions"
  /\ last.removed # {}
  /\ DOMAIN sessions = {}
  /\ DOMAIN toolSets # {}

\* a session function has just swept an expired tool set
C39_SweptBySessionOp ==
  /\ last.op \in SweepingSessionOps
  /\ last.removedToolSets # {}

====
